---- MODULE Spec2Model ----
(***************************************************************************)
(* A model of the ritveer order pipeline: the Commit step and its order    *)
(* store (agents/commit_agent.py), the WhatsApp webhook entry point and    *)
(* the intake pipeline with their Redis de-duplication keys                *)
(* (api/webhooks.py, agents/intake_agent.py), the Guard step               *)
(* (agents/guard_agent.py), the workflow graph (graph/workflow.py), the    *)
(* payment tool's retry stream (tools/razorpay_tools.py), the Supplier     *)
(* step's wait for quotes (agents/supplier_agent.py) and the Cash step     *)
(* with its ledger (agents/cash_agent.py, tools/postgis_tools.py).         *)
(*                                                                         *)
(* The specifications share the variables:                                 *)
(*   SpecCommitSeq  commit_node invocations run one at a time, and may     *)
(*                  crash and be re-run;                                   *)
(*   SpecCommit     commit_node invocations of several pipeline instances  *)
(*                  interleave at their awaits, and may crash;             *)
(*   SpecHook       webhook deliveries and intake pipeline calls           *)
(*                  interleave at their Redis round trips, time passes;    *)
(*   SpecHookCrash  webhook deliveries alone, any of which may stop        *)
(*                  between its setnx and its expire;                      *)
(*   SpecGuard      guard_node calls against a shared Redis, time passes;  *)
(*   SpecRate       guard_node executions interleave at the rate check;    *)
(*   SpecFlow       one run of the workflow graph, step by step, while     *)
(*                  the policy may be reloaded;                            *)
(*   SpecRetry      create_payment_order calls and the retry stream;       *)
(*   SpecRfp        the Supplier step's polling wait, under fairness;      *)
(*   SpecCash       cash_agent_node runs against the ledger table.         *)
(***************************************************************************)
EXTENDS Integers, Sequences, FiniteSets, TLC

VARIABLES
    \* ---- Commit: the order store and the outside world ----
    orders,      \* dao: order_id -> the row create_order persisted
    createCalls, \* order_id -> number of dao.create_order calls made
    poPdfs,      \* order_id -> number of purchase-order PDFs generated
    poSent,      \* order_id -> number of POs sent to the supplier chat
    reserveCalls,\* order_id -> number of dao.reserve_capacity calls
    shipTasks,   \* order_id -> number of dao.create_ship_task calls
    uuidCtr,     \* number of uuid4() values drawn so far
    \* ---- Commit: one pipeline instance each ----
    pstate,      \* the instance's state dict: order_id, commit
    cpc,         \* where the instance's commit_node invocation stands
    cin,         \* what the running invocation read from the state dict
    clocal,      \* commit_node's locals: order_id, po_id, events, reserved
    runs,        \* number of commit_node invocations started so far
    reentry,     \* the running invocation started after a completed commit
    resumed,     \* the running invocation re-runs one that crashed after create_order
    completed,   \* order ids for which commit_node ran to its end
    \* ---- The clock, and the Redis behind the entry point ----
    now,         \* seconds
    redisCfg,    \* the module-level client r: "unset", "none", "up", "down"
    failPolicy,  \* the deployment's degraded-mode policy: "open" or "closed"
    seen,        \* Redis keys intake:seen:<request_id>: id -> NoKey or [exp]
    \* ---- Webhook deliveries and intake pipeline calls ----
    dpc,         \* where each webhook delivery stands
    dreq,        \* each delivery's request: sid, body, valid signature
    dres,        \* each delivery's claim (result, time) and its response
    steps,       \* the agent steps run for each delivery
    ppc,         \* where each direct run_intake_pipeline call stands
    pcall,       \* each call's arguments, request id and duplicate mark
    pout,        \* each call's IntakeOutput
    \* ---- Guard ----
    gseen,       \* Redis keys guard:seen:<request_id>
    grate,       \* Redis keys guard:rate:<chat_id>:<window>
    guard,       \* state["guard"] of the last guard_node call
    gintake,     \* state["intake"] of the last guard_node call: raw_text as
                 \* the call left it, as it was given, and all the call read
    gsignals,    \* which signals the last guard_node call's input triggered
    gcalls,      \* number of guard_node calls made
    \* ---- One run of the workflow graph ----
    fpc,         \* the step the graph runs next, "idle", "END" or "crashed"
    fs,          \* the state dict threaded through the steps
    fpath,       \* the steps run so far, in order
    fin,         \* how the run was started: by the webhook or directly
    \* ---- Concurrent rate checks of guard_node ----
    rp,          \* each execution's place, window key, count and flag
    \* ---- The process-wide policy object ----
    policy_store,\* what policy.get() returns now
    \* ---- The payment tool and its retry stream ----
    redis_client,\* redis_utils' module-level client: "unset", "none", or a
                 \* client whose server is "up" or "down"
    retry_stream,\* the Redis stream ritveer_retry_stream: receipts of its tasks
    payres,      \* receipt -> status of the last create_payment_order call
    \* ---- The Supplier step's wait for quotes ----
    rfp,         \* the wait loop's place, clock, deadline and the quotes in
    \* ---- The Cash step and the ledger ----
    ledgerCfg,   \* the ledger table: whether it is created, whether
                 \* transaction_id is unique in it, whether the database is up
    ledger,      \* payment_order_id -> number of ledger rows with that id
    cashres      \* payment_order_id -> what the last cash_agent_node run returned

commitVars == <<orders, createCalls, poPdfs, poSent, reserveCalls, shipTasks,
                uuidCtr, pstate, cpc, cin, clocal, runs, reentry, resumed,
                completed>>
hookVars   == <<redisCfg, failPolicy, seen, dpc, dreq, dres, steps, ppc, pcall, pout>>
guardVars  == <<gseen, grate, guard, gintake, gsignals, gcalls>>
flowVars   == <<fpc, fs, fpath, fin>>
retryVars  == <<redis_client, retry_stream, payres>>
cashVars   == <<ledgerCfg, ledger, cashres>>
auxVars    == <<rp, policy_store, retryVars, rfp, cashVars>>
vars       == <<commitVars, now, hookVars, guardVars, flowVars, auxVars>>

----------------------------------------------------------------------------
(* Bounds of the model *)

NInst    == 2      \* pipeline instances that reach Commit
NDeliv   == 3      \* webhook deliveries
NPipe    == 1      \* direct run_intake_pipeline calls
TickStep == 60     \* seconds the clock advances by
MaxTime  == 130    \* the clock stops here
MaxGuardCalls == 3 \* guard_node calls
MaxRuns  == 3      \* commit_node invocations in all
MaxUuid  == 3      \* uuid4() values drawn
MaxFlowSteps == 6  \* steps of one run of the graph
NRate    == 4      \* guard_node executions that reach the rate check
MaxRetryTasks == 3 \* tasks in the retry stream
MaxQuotes == 4     \* quotes the suppliers submit for one RFP
MaxRfpClock == 20  \* seconds the model follows one RFP wait
MaxLedgerRows == 4 \* rows in the ledger table

Inst == 1..NInst

----------------------------------------------------------------------------
(* Commit: agents/commit_agent.py *)

NoId == "none"
GivenOrderIds == {"o1"}

\* uuid.uuid4(): the n-th value drawn, different from every other
Uuid(n) == "u" \o ToString(n)

AllOrderIds == GivenOrderIds \cup {Uuid(n) : n \in 1..MaxUuid}

\* state["supplier"]["shortlist"][0]
Quote == [supplier_id |-> "s1", amount_inr |-> 1500, lead_time_days |-> 3]

\* What an invocation can find in the state dict: policy.prepay_required,
\* customer.is_new, intake.entities.quantity and cash.status. One case per
\* outcome of must_prepay and of the precondition.
CommitInputs ==
    { [prepay_required |-> FALSE, is_new |-> TRUE,  qty |-> 1, cash_status |-> "pending"],
      [prepay_required |-> TRUE,  is_new |-> TRUE,  qty |-> 1, cash_status |-> "confirmed"],
      [prepay_required |-> TRUE,  is_new |-> FALSE, qty |-> 1, cash_status |-> "pending"],
      [prepay_required |-> TRUE,  is_new |-> FALSE, qty |-> 2, cash_status |-> "pending"],
      [prepay_required |-> TRUE,  is_new |-> TRUE,  qty |-> 1, cash_status |-> "pending"] }

PrepayThresholdDefault == 3000

\* must_prepay(policy, state)
\* must_prepay without its test for a new customer
must_prepay_threshold_only(prepay_required, is_new, qty) ==
    IF ~prepay_required
    THEN FALSE
    ELSE Quote.amount_inr * qty >= PrepayThresholdDefault

must_prepay(prepay_required, is_new, qty) ==
    IF ~prepay_required
    THEN FALSE
    ELSE LET amount == Quote.amount_inr * qty
         IN  is_new \/ amount >= PrepayThresholdDefault

NoCommit == [status |-> "unset"]

\* The record commit_node stores when the prepay precondition fails
\* (eta_utc and artifacts, a timestamp and a file path, are left out of
\* every commit record of the model).
FailedCommit(oid, qty) ==
    [order_id |-> oid, po_id |-> "", supplier_id |-> Quote.supplier_id,
     amount_inr |-> Quote.amount_inr * qty, qty |-> qty,
     lead_time_days |-> Quote.lead_time_days, status |-> "failed",
     events |-> <<"validated">>, risk_flags |-> <<"cash_not_confirmed">>]

\* The record at the end of commit_node, were a failed reservation to fail
\* the commit
FinalCommitFailsUnreserved(oid, po, qty, reserved, events) ==
    [order_id |-> oid, po_id |-> po, supplier_id |-> Quote.supplier_id,
     amount_inr |-> Quote.amount_inr * qty, qty |-> qty,
     lead_time_days |-> Quote.lead_time_days,
     status |-> IF reserved THEN "reserved" ELSE "failed",
     events |-> events,
     risk_flags |-> IF reserved THEN <<>> ELSE <<"no_capacity_reservation">>]

\* The record at the end of commit_node, were the status not to follow
\* the reservation
FinalCommitAlwaysReserved(oid, po, qty, reserved, events) ==
    [order_id |-> oid, po_id |-> po, supplier_id |-> Quote.supplier_id,
     amount_inr |-> Quote.amount_inr * qty, qty |-> qty,
     lead_time_days |-> Quote.lead_time_days,
     status |-> "reserved",
     events |-> events,
     risk_flags |-> IF reserved THEN <<>> ELSE <<"no_capacity_reservation">>]

\* The record commit_node stores at its end
FinalCommit(oid, po, qty, reserved, events) ==
    [order_id |-> oid, po_id |-> po, supplier_id |-> Quote.supplier_id,
     amount_inr |-> Quote.amount_inr * qty, qty |-> qty,
     lead_time_days |-> Quote.lead_time_days,
     status |-> IF reserved THEN "reserved" ELSE "awaiting_supplier_ack",
     events |-> events,
     risk_flags |-> IF reserved THEN <<>> ELSE <<"no_capacity_reservation">>]

\* The row commit_node hands to dao.create_order
OrderRow(oid, po, qty) ==
    [order_id |-> oid, po_id |-> po, supplier_id |-> Quote.supplier_id,
     amount_inr |-> Quote.amount_inr * qty, qty |-> qty,
     lead_time_days |-> Quote.lead_time_days, status |-> "placed"]

NoRow == [status |-> "absent"]

\* dao.get_order_by_id(order_id): the row, if one is stored
OrderExists(oid) == orders[oid] # NoRow

\* existing["commit_snapshot"]: the commit record of the persisted row
CommitSnapshot(row) ==
    [order_id |-> row.order_id, po_id |-> row.po_id,
     supplier_id |-> row.supplier_id, amount_inr |-> row.amount_inr,
     qty |-> row.qty, lead_time_days |-> row.lead_time_days,
     status |-> row.status, events |-> <<>>, risk_flags |-> <<>>]

\* dao.create_order(row): a conditional insert keyed by order_id; a row
\* already stored under the id is kept
InsertOrder(tbl, row) ==
    IF tbl[row.order_id] # NoRow
    THEN tbl
    ELSE [tbl EXCEPT ![row.order_id] = row]

NoLocal == [order_id |-> NoId, po_id |-> "", events |-> <<>>, reserved |-> FALSE]
NoInput == [order_id |-> NoId, prepay_required |-> FALSE, is_new |-> FALSE,
            qty |-> 0, cash_status |-> "unread"]

Bump(f, k) == [f EXCEPT ![k] = @ + 1]

InitCommit ==
    /\ orders = [o \in AllOrderIds |-> NoRow]
    /\ createCalls = [o \in AllOrderIds |-> 0]
    /\ poPdfs = [o \in AllOrderIds |-> 0]
    /\ poSent = [o \in AllOrderIds |-> 0]
    /\ reserveCalls = [o \in AllOrderIds |-> 0]
    /\ shipTasks = [o \in AllOrderIds |-> 0]
    /\ uuidCtr = 0
    /\ pstate = [i \in Inst |-> [order_id |-> NoId, commit |-> NoCommit]]
    /\ cpc = [i \in Inst |-> "idle"]
    /\ cin = [i \in Inst |-> NoInput]
    /\ clocal = [i \in Inst |-> NoLocal]
    /\ runs = 0
    /\ reentry = [i \in Inst |-> FALSE]
    /\ resumed = [i \in Inst |-> FALSE]
    /\ completed = {}

RunningPcs == {"lookup", "create", "pdf", "send", "reserve", "ship"}
AfterCreatePcs == {"pdf", "send", "reserve", "ship"}

\* commit_node, lines 38-71: the prepay precondition, then the order id;
\* `inp` is what the invocation reads from the state dict
CommitEntry(i, inp) ==
    LET fresh  == inp.order_id = NoId
        oid    == IF fresh THEN Uuid(uuidCtr + 1) ELSE inp.order_id
        failed == /\ must_prepay(inp.prepay_required, inp.is_new, inp.qty)
                  /\ inp.cash_status # "confirmed"
    IN  /\ runs < MaxRuns
        /\ fresh => uuidCtr < MaxUuid
        /\ runs' = runs + 1
        /\ uuidCtr' = IF fresh THEN uuidCtr + 1 ELSE uuidCtr
        /\ cin' = [cin EXCEPT ![i] = IF failed THEN NoInput ELSE inp]
        /\ reentry' = [reentry EXCEPT ![i] = oid \in completed]
        /\ IF failed
           THEN /\ pstate' = [pstate EXCEPT ![i].order_id = inp.order_id,
                                            ![i].commit = FailedCommit(oid, inp.qty)]
                /\ cpc' = [cpc EXCEPT ![i] = "done"]
                /\ clocal' = [clocal EXCEPT ![i] = NoLocal]
           ELSE /\ pstate' = [pstate EXCEPT ![i].order_id = oid]
                /\ cpc' = [cpc EXCEPT ![i] = "lookup"]
                /\ clocal' = [clocal EXCEPT ![i] = [NoLocal EXCEPT !.order_id = oid]]
        /\ UNCHANGED <<orders, createCalls, poPdfs, poSent, reserveCalls,
                       shipTasks, completed>>

\* The orchestrator runs Commit for instance i: a first run, or a later one
\* after the earlier one returned
CommitInvoke(i) ==
    /\ cpc[i] \in {"idle", "done"}
    /\ \E oid \in (IF cpc[i] = "idle" THEN GivenOrderIds \cup {NoId} ELSE {pstate[i].order_id}),
          c \in CommitInputs :
          CommitEntry(i, [order_id |-> oid, prepay_required |-> c.prepay_required,
                          is_new |-> c.is_new, qty |-> c.qty,
                          cash_status |-> c.cash_status])
    /\ resumed' = [resumed EXCEPT ![i] = FALSE]

\* Crash recovery runs Commit again from the state the crashed run was given
CommitRerun(i) ==
    /\ cpc[i] = "crashed"
    /\ CommitEntry(i, cin[i])
    /\ UNCHANGED resumed

\* commit_node without its lookup: it goes on to create whatever is stored
CommitLookupNoCheck(i) ==
    /\ cpc[i] = "lookup"
    /\ uuidCtr < MaxUuid
    /\ uuidCtr' = uuidCtr + 1
    /\ clocal' = [clocal EXCEPT ![i].po_id = Uuid(uuidCtr + 1)]
    /\ cpc' = [cpc EXCEPT ![i] = "create"]
    /\ UNCHANGED <<orders, createCalls, poPdfs, poSent, reserveCalls, shipTasks,
                   pstate, cin, runs, reentry, resumed, completed>>

\* lines 71-79: the lookup by order_id returns
CommitLookup(i) ==
    /\ cpc[i] = "lookup"
    /\ LET oid == clocal[i].order_id
       IN  IF OrderExists(oid)
           THEN /\ pstate' = [pstate EXCEPT ![i].commit = CommitSnapshot(orders[oid])]
                /\ cpc' = [cpc EXCEPT ![i] = "done"]
                /\ clocal' = [clocal EXCEPT ![i] = NoLocal]
                /\ cin' = [cin EXCEPT ![i] = NoInput]
                /\ UNCHANGED uuidCtr
           ELSE /\ uuidCtr < MaxUuid
                /\ uuidCtr' = uuidCtr + 1
                /\ clocal' = [clocal EXCEPT ![i].po_id = Uuid(uuidCtr + 1)]
                /\ cpc' = [cpc EXCEPT ![i] = "create"]
                /\ UNCHANGED <<pstate, cin>>
    /\ UNCHANGED <<orders, createCalls, poPdfs, poSent, reserveCalls, shipTasks,
                   runs, reentry, resumed, completed>>

\* lines 80-87: dao.create_order
CommitCreateOrder(i) ==
    /\ cpc[i] = "create"
    /\ orders' = InsertOrder(orders, OrderRow(clocal[i].order_id, clocal[i].po_id, cin[i].qty))
    /\ createCalls' = Bump(createCalls, clocal[i].order_id)
    /\ cpc' = [cpc EXCEPT ![i] = "pdf"]
    /\ UNCHANGED <<poPdfs, poSent, reserveCalls, shipTasks, uuidCtr, pstate, cin,
                   clocal, runs, reentry, resumed, completed>>

\* lines 89-101: the PO PDF
CommitGeneratePO(i) ==
    /\ cpc[i] = "pdf"
    /\ poPdfs' = Bump(poPdfs, clocal[i].order_id)
    /\ clocal' = [clocal EXCEPT ![i].events = Append(@, "po_created")]
    /\ cpc' = [cpc EXCEPT ![i] = "send"]
    /\ UNCHANGED <<orders, createCalls, poSent, reserveCalls, shipTasks, uuidCtr,
                   pstate, cin, runs, reentry, resumed, completed>>

\* lines 103-109: the PO goes to the supplier's chat
CommitSendPO(i) ==
    /\ cpc[i] = "send"
    /\ poSent' = Bump(poSent, clocal[i].order_id)
    /\ clocal' = [clocal EXCEPT ![i].events = Append(@, "po_sent")]
    /\ cpc' = [cpc EXCEPT ![i] = "reserve"]
    /\ UNCHANGED <<orders, createCalls, poPdfs, reserveCalls, shipTasks, uuidCtr,
                   pstate, cin, runs, reentry, resumed, completed>>

\* lines 111-114: the soft reservation, which may fail
CommitReserve(i) ==
    /\ cpc[i] = "reserve"
    /\ \E ok \in BOOLEAN :
          clocal' = [clocal EXCEPT ![i].reserved = ok,
                                   ![i].events = Append(@, IF ok THEN "reserve_ok"
                                                                 ELSE "reserve_failed")]
    /\ reserveCalls' = Bump(reserveCalls, clocal[i].order_id)
    /\ cpc' = [cpc EXCEPT ![i] = "ship"]
    /\ UNCHANGED <<orders, createCalls, poPdfs, poSent, shipTasks, uuidCtr,
                   pstate, cin, runs, reentry, resumed, completed>>

\* lines 116-133: the ship task, then the commit record
CommitShipTask(i) ==
    /\ cpc[i] = "ship"
    /\ shipTasks' = Bump(shipTasks, clocal[i].order_id)
    /\ pstate' = [pstate EXCEPT ![i].commit =
                     FinalCommit(clocal[i].order_id, clocal[i].po_id, cin[i].qty,
                                 clocal[i].reserved,
                                 Append(clocal[i].events, "ship_task"))]
    /\ completed' = completed \cup {clocal[i].order_id}
    /\ clocal' = [clocal EXCEPT ![i] = NoLocal]
    /\ cin' = [cin EXCEPT ![i] = NoInput]
    /\ cpc' = [cpc EXCEPT ![i] = "done"]
    /\ UNCHANGED <<orders, createCalls, poPdfs, poSent, reserveCalls, uuidCtr,
                   runs, reentry, resumed>>

\* The process dies inside commit_node: its locals and the order_id it put
\* into the in-memory state are lost, the order store keeps what it has
CommitCrash(i) ==
    /\ cpc[i] \in RunningPcs
    /\ cpc' = [cpc EXCEPT ![i] = "crashed"]
    /\ resumed' = [resumed EXCEPT ![i] =
                      @ \/ (cpc[i] \in AfterCreatePcs /\ cin[i].order_id # NoId)]
    /\ pstate' = [pstate EXCEPT ![i].order_id = cin[i].order_id]
    /\ clocal' = [clocal EXCEPT ![i] = NoLocal]
    /\ UNCHANGED <<orders, createCalls, poPdfs, poSent, reserveCalls, shipTasks,
                   uuidCtr, cin, runs, reentry, completed>>

Quiet(j) == cpc[j] \in {"idle", "done", "crashed"}

\* No other instance is inside commit_node
Alone(i) == \A j \in Inst \ {i} : Quiet(j)

----------------------------------------------------------------------------
(* Redis keys with a time to live *)

NoKey == [exp |-> 0 - 2]
NoTTL == 0 - 1

\* The key exists at time t: it was set, and has not expired
Live(store, key, t) ==
    /\ store[key] # NoKey
    /\ (store[key].exp = NoTTL \/ t < store[key].exp)

\* A plain SET in place of SETNX: every caller is told it set the key
SetAlwaysClaims(store, key, t) == TRUE

\* r.setnx(key, 1): whether the key was set by this call
SetNXClaims(store, key, t) == ~Live(store, key, t)

\* r.setnx(key, 1): the store after the call; a key just set has no expiry
SetNXStore(store, key, t) ==
    IF SetNXClaims(store, key, t)
    THEN [store EXCEPT ![key] = [exp |-> NoTTL]]
    ELSE store

\* r.expire(key, ttl): the key, if it exists, now expires ttl from now
ExpireStore(store, key, ttl, t) ==
    IF Live(store, key, t)
    THEN [store EXCEPT ![key] = [exp |-> t + ttl]]
    ELSE store

----------------------------------------------------------------------------
(* The entry point: api/webhooks.py, and agents/intake_agent.py *)

Deliveries == 1..NDeliv
PipeIds == 1..NPipe

IntakeSeenTTL == 120

NoSid == "None"

\* Message bodies, as their words
BodyOrder == <<"order", "clay">>
BodyHelp  == <<"help">>

\* hashlib.sha256(body.encode('utf-8')).hexdigest()[:16]
Digest(body) ==
    CASE body = BodyOrder -> "c86a274fca3805ea"
      [] body = BodyHelp  -> "106a5842fc5fce6f"
      [] OTHER            -> "e3b0c44298fc1c14"

\* make_request_id(msg_sid, body)
make_request_id(msg_sid, body) == msg_sid \o "-" \o Digest(body)

\* msg_sid = MessageSid or "unknown"
SidOrUnknown(sid) == IF sid = NoSid THEN "unknown" ELSE sid

\* The (MessageSid, Body) forms that arrive
Requests ==
    { [sid |-> "SM1", body |-> BodyOrder],
      [sid |-> NoSid, body |-> BodyHelp] }

\* The (msg_sid, raw_message) forms run_intake_pipeline is called with
PipeRequests ==
    { [sid |-> "SM1", body |-> BodyOrder],
      [sid |-> "unknown", body |-> BodyHelp] }

RequestIds ==
    {make_request_id(SidOrUnknown(q.sid), q.body) : q \in Requests} \cup {"req_unknown"}

HasWord(body, w) == \E k \in 1..Len(body) : body[k] = w

\* run_intake_pipeline, lines 125-136: the intent from the keywords
IntentOf(body) ==
    IF HasWord(body, "order") THEN "place_order"
    ELSE IF HasWord(body, "help") THEN "support_request"
    ELSE "general_inquiry"

\* run_intake_pipeline, lines 165-178: the next hop hint; the pipeline sets
\* no risk flag, no slot gap, and the language "en"
HintOf(duplicate, intent) ==
    IF duplicate THEN "drop"
    ELSE IF intent = "unsupported" THEN "ops_agent"
    ELSE "cluster_agent"

\* run_intake_pipeline, lines 182-217: the IntakeOutput
IntakeOutputOf(request_id, body, duplicate) ==
    [request_id |-> request_id, raw_text |-> body, intent |-> IntentOf(body),
     risk_flags |-> <<>>, duplicate |-> duplicate,
     next_actions_hint |-> HintOf(duplicate, IntentOf(body))]

NoReq == [sid |-> NoSid, body |-> <<>>, valid_signature |-> FALSE, request_id |-> ""]
NoRes == [claim |-> "none", at |-> -1, response |-> [status |-> "none"]]
NoCall == [sid |-> NoSid, body |-> <<>>, request_id |-> "", duplicate |-> FALSE]
NoOut == [request_id |-> ""]

InitHook ==
    /\ redisCfg = "unset"
    /\ failPolicy = "unset"
    /\ seen = [k \in RequestIds |-> NoKey]
    /\ dpc = [d \in Deliveries |-> "new"]
    /\ dreq = [d \in Deliveries |-> NoReq]
    /\ dres = [d \in Deliveries |-> NoRes]
    /\ steps = [d \in Deliveries |-> <<>>]
    /\ ppc = [c \in PipeIds |-> "new"]
    /\ pcall = [c \in PipeIds |-> NoCall]
    /\ pout = [c \in PipeIds |-> NoOut]

\* The modules are imported: r is a client, or None when from_url failed;
\* a client's server is reachable or not.  failPolicy is the degraded-mode
\* policy value of the specification; no line of the code reads it
HookImport ==
    /\ redisCfg = "unset"
    /\ redisCfg' \in {"up", "down", "none"}
    /\ failPolicy' \in {"open", "closed"}
    /\ UNCHANGED <<seen, dpc, dreq, dres, steps, ppc, pcall, pout>>

\* whatsapp_hook without the early return on a duplicate
HookAfterSetnxNoReturn(claimed) == "expire"

\* whatsapp_hook, lines 51-54: a duplicate returns at once, a first claim
\* goes on to set the expiry
HookAfterSetnx(claimed) == IF claimed THEN "expire" ELSE "done"

\* whatsapp_hook, lines 32-56: the request id, then the claim of
\* intake:seen:<request_id>
HookClaim(d) ==
    /\ redisCfg # "unset"
    /\ dpc[d] = "new"
    \* deliveries are numbered in the order they reach this point
    /\ \A e \in Deliveries : e < d => dpc[e] # "new"
    /\ \E q \in Requests, sig \in BOOLEAN :
         LET rid == make_request_id(SidOrUnknown(q.sid), q.body)
             req == [sid |-> q.sid, body |-> q.body, valid_signature |-> sig,
                     request_id |-> rid]
         IN  /\ dreq' = [dreq EXCEPT ![d] = req]
             /\ CASE redisCfg = "none" ->
                       /\ dres' = [dres EXCEPT ![d].claim = "skipped", ![d].at = now]
                       /\ dpc' = [dpc EXCEPT ![d] = "invoke"]
                       /\ UNCHANGED seen
                  [] redisCfg = "down" ->
                       \* r.setnx raises: the call ends in an unhandled error
                       /\ dres' = [dres EXCEPT ![d].claim = "error", ![d].at = now,
                                               ![d].response = [status |-> "error"]]
                       /\ dpc' = [dpc EXCEPT ![d] = "done"]
                       /\ UNCHANGED seen
                  [] OTHER ->
                       LET claimed == SetNXClaims(seen, rid, now)
                       IN  /\ seen' = SetNXStore(seen, rid, now)
                           /\ dpc' = [dpc EXCEPT ![d] = HookAfterSetnx(claimed)]
                           /\ dres' = [dres EXCEPT
                                 ![d].claim = IF claimed THEN "first" ELSE "duplicate",
                                 ![d].at = now,
                                 ![d].response =
                                     IF HookAfterSetnx(claimed) = "done"
                                     THEN [status |-> "duplicate", request_id |-> rid]
                                     ELSE @]
    /\ UNCHANGED <<redisCfg, failPolicy, steps, ppc, pcall, pout>>

\* whatsapp_hook, line 54: r.expire(key, 120)
HookExpire(d) ==
    /\ dpc[d] = "expire"
    /\ seen' = ExpireStore(seen, dreq[d].request_id, IntakeSeenTTL, now)
    /\ dpc' = [dpc EXCEPT ![d] = "invoke"]
    /\ UNCHANGED <<redisCfg, failPolicy, dreq, dres, steps, ppc, pcall, pout>>

\* The worker process dies between r.setnx (line 51) and r.expire
\* (line 54): the delivery's handler runs no further
HookCrash(d) ==
    /\ dpc[d] = "expire"
    /\ dpc' = [dpc EXCEPT ![d] = "crashed"]
    /\ UNCHANGED <<redisCfg, failPolicy, seen, dreq, dres, steps, ppc, pcall, pout>>

\* whatsapp_hook, lines 58-93: the initial state, the graph run from its
\* entry point Intake (intake_node calls run_intake_pipeline without a
\* msg_sid, so without a claim), the response
HookInvoke(d) ==
    /\ dpc[d] = "invoke"
    /\ LET out == IntakeOutputOf("req_unknown", dreq[d].body, FALSE)
       IN  /\ steps' = [steps EXCEPT ![d] = Append(@, "Intake")]
           /\ dres' = [dres EXCEPT ![d].response =
                          [status |-> "ok", request_id |-> dreq[d].request_id,
                           next |-> out.next_actions_hint]]
    /\ dpc' = [dpc EXCEPT ![d] = "done"]
    /\ UNCHANGED <<redisCfg, failPolicy, seen, dreq, ppc, pcall, pout>>

\* run_intake_pipeline called with a msg_sid, lines 46-50: the claim
PipeClaim(c) ==
    /\ redisCfg \in {"up", "none"}
    /\ ppc[c] = "new"
    \* calls are numbered in the order they reach this point
    /\ \A e \in PipeIds : e < c => ppc[e] # "new"
    /\ \E q \in PipeRequests :
         LET rid == make_request_id(q.sid, q.body)
             dup == redisCfg = "up" /\ ~SetNXClaims(seen, rid, now)
         IN  /\ pcall' = [pcall EXCEPT ![c] = [sid |-> q.sid, body |-> q.body,
                                              request_id |-> rid, duplicate |-> dup]]
             /\ seen' = IF redisCfg = "up" THEN SetNXStore(seen, rid, now) ELSE seen
    /\ ppc' = [ppc EXCEPT ![c] = "expire"]
    /\ UNCHANGED <<redisCfg, failPolicy, dpc, dreq, dres, steps, pout>>

\* run_intake_pipeline, lines 53-54, then the rest of the pipeline: the
\* expiry is set whether or not this call claimed the key
PipeExpire(c) ==
    /\ ppc[c] = "expire"
    /\ seen' = IF redisCfg = "up"
               THEN ExpireStore(seen, pcall[c].request_id, IntakeSeenTTL, now)
               ELSE seen
    /\ pout' = [pout EXCEPT ![c] =
                   IntakeOutputOf(pcall[c].request_id, pcall[c].body, pcall[c].duplicate)]
    /\ ppc' = [ppc EXCEPT ![c] = "done"]
    /\ UNCHANGED <<redisCfg, failPolicy, dpc, dreq, dres, steps, pcall>>

\* Time passes
Tick ==
    /\ now + TickStep <= MaxTime
    /\ now' = now + TickStep

----------------------------------------------------------------------------
(* Guard: agents/guard_agent.py *)

NoReqId == "None"
GuardReqIds == {"r1"}
ChatIds == {"u1"}
Windows == 0..(MaxTime \div 30 + 1)

\* re.I: the lower-case form of a word
Lower(w) == CASE w = "SCAM" -> "scam" [] w = "Shit" -> "shit" [] OTHER -> w

IsUrl(w) == w \in {"http://x.io"}

\* PROFANITY.search(text)
ProfanityMatch(text) ==
    \E k \in 1..Len(text) : Lower(text[k]) \in {"fuck", "shit", "bitch", "bastard"}

\* JAILBREAK.search(text), on the words of the text
JailbreakMatch(text) ==
    \E k \in 1..Len(text) :
       \/ Lower(text[k]) \in {"bypass", "systemprompt"}
       \/ /\ k < Len(text)
          /\ <<Lower(text[k]), Lower(text[k + 1])>> \in
                {<<"ignore", "previous">>, <<"system", "prompt">>,
                 <<"do", "anything">>, <<"developer", "mode">>}

\* has_blacklist(text, words)
has_blacklist(text, words) ==
    \E j \in 1..Len(words) :
       /\ words[j] # ""
       /\ \E k \in 1..Len(text) : Lower(text[k]) = Lower(words[j])

\* sanitize(text, policy): links are replaced unless the policy allows them
sanitize(text, policy) ==
    [k \in 1..Len(text) |->
        IF ~policy.allow_links /\ IsUrl(text[k]) THEN "[link removed]" ELSE text[k]]

\* state["policy"]["guard"]
BasePolicy ==
    [drop_on_invalid_signature |-> TRUE, dedupe_ttl_s |-> 120,
     per_user_burst_n |-> 2, per_user_burst_window_s |-> 30,
     blacklist_words |-> <<"", "scam">>, allow_profanity |-> FALSE,
     allow_links |-> TRUE]

GuardPolicies ==
    { BasePolicy,
      [BasePolicy EXCEPT !.drop_on_invalid_signature = FALSE],
      [BasePolicy EXCEPT !.allow_profanity = TRUE, !.allow_links = FALSE] }

GuardTexts ==
    { <<"order", "clay">>, <<"SCAM">>, <<"Shit">>, <<"bypass">>,
      <<"scam", "shit", "ignore", "previous">>, <<"see", "http://x.io">> }

\* What guard_node reads from the state dict
GuardInputs ==
    [text : GuardTexts, request_id : GuardReqIds \cup {NoReqId},
     invalid_signature : BOOLEAN, chat_id : ChatIds \cup {"anon"},
     policy : GuardPolicies, redis : BOOLEAN]

\* redis.incr(key, 1): the value after the increment
IncrCount(store, key, t) == IF Live(store, key, t) THEN store[key].count + 1 ELSE 1

\* A SET of the key to 1 in place of the increment
IncrStoreLost(store, key, t) ==
    [store EXCEPT ![key] = [exp |-> NoTTL, count |-> 1]]

\* redis.incr(key, 1): the store after it; the expiry of a live key is kept
IncrStore(store, key, t) ==
    IF Live(store, key, t)
    THEN [store EXCEPT ![key].count = @ + 1]
    ELSE [store EXCEPT ![key] = [exp |-> NoTTL, count |-> 1]]

\* guard_node's running result and the Redis it has written so far
GuardStart(in) ==
    [action |-> "pass", reasons |-> <<>>, ttl |-> 0, gseen |-> gseen, grate |-> grate]

\* 1) Invalid signature
GuardSignature(acc, in) ==
    IF in.invalid_signature /\ in.policy.drop_on_invalid_signature
    THEN [acc EXCEPT !.reasons = Append(@, "invalid_signature"), !.action = "drop"]
    ELSE acc

\* The replay check without its test for an earlier drop
GuardReplayAfterDrop(acc, in) ==
    IF in.request_id # NoReqId /\ in.redis
    THEN IF ~SetNXClaims(acc.gseen, in.request_id, now)
         THEN [acc EXCEPT !.reasons = Append(@, "replay"), !.action = "drop"]
         ELSE [acc EXCEPT !.gseen =
                  ExpireStore(SetNXStore(acc.gseen, in.request_id, now),
                              in.request_id, in.policy.dedupe_ttl_s, now)]
    ELSE acc

\* 2) Replay protection
GuardReplay(acc, in) ==
    IF in.request_id # NoReqId /\ in.redis /\ acc.action # "drop"
    THEN IF ~SetNXClaims(acc.gseen, in.request_id, now)
         THEN [acc EXCEPT !.reasons = Append(@, "replay"), !.action = "drop"]
         ELSE [acc EXCEPT !.gseen =
                  ExpireStore(SetNXStore(acc.gseen, in.request_id, now),
                              in.request_id, in.policy.dedupe_ttl_s, now)]
    ELSE acc

\* guard:rate:<chat_id>:<int(time.time() // window_s)>
RateKey(in) == <<in.chat_id, now \div in.policy.per_user_burst_window_s>>

\* 3) Rate limiting per user
GuardRate(acc, in) ==
    IF in.chat_id # "anon" /\ in.redis /\ acc.action # "drop"
    THEN LET key     == RateKey(in)
             count   == IncrCount(acc.grate, key, now)
             counted == IncrStore(acc.grate, key, now)
             stored  == IF count = 1
                        THEN [counted EXCEPT ![key].exp =
                                 now + in.policy.per_user_burst_window_s]
                        ELSE counted
         IN  IF count > in.policy.per_user_burst_n
             THEN [acc EXCEPT !.grate = stored,
                              !.reasons = Append(@, "high_velocity"),
                              !.action = "clarify",
                              !.ttl = in.policy.per_user_burst_window_s]
             ELSE [acc EXCEPT !.grate = stored]
    ELSE acc

\* The blacklist check without its test for an earlier drop
GuardBlacklistAfterDrop(acc, in) ==
    IF has_blacklist(in.text, in.policy.blacklist_words)
    THEN [acc EXCEPT !.reasons = Append(@, "blacklist_hit"), !.action = "ops"]
    ELSE acc

\* 4) Blacklisted content
GuardBlacklist(acc, in) ==
    IF has_blacklist(in.text, in.policy.blacklist_words) /\ acc.action # "drop"
    THEN [acc EXCEPT !.reasons = Append(@, "blacklist_hit"), !.action = "ops"]
    ELSE acc

\* 5) Profanity
GuardProfanity(acc, in) ==
    IF ProfanityMatch(in.text) /\ ~in.policy.allow_profanity /\ acc.action = "pass"
    THEN [acc EXCEPT !.reasons = Append(@, "profanity"), !.action = "clarify"]
    ELSE acc

\* 6) Prompt injection
GuardInjection(acc, in) ==
    IF JailbreakMatch(in.text) /\ acc.action = "pass"
    THEN [acc EXCEPT !.reasons = Append(@, "prompt_injection"), !.action = "clarify"]
    ELSE acc

\* The signals the input of a guard_node call triggers, each taken alone
\* against the Redis the call finds
SignalsOf(in) ==
    [invalid_signature |-> in.invalid_signature /\ in.policy.drop_on_invalid_signature,
     replay |-> in.request_id # NoReqId /\ in.redis /\ Live(gseen, in.request_id, now),
     rate |-> /\ in.chat_id # "anon" /\ in.redis
              /\ IncrCount(grate, RateKey(in), now) > in.policy.per_user_burst_n,
     blacklist |-> has_blacklist(in.text, in.policy.blacklist_words),
     profanity |-> ProfanityMatch(in.text) /\ ~in.policy.allow_profanity,
     injection |-> JailbreakMatch(in.text)]

NoSignals ==
    [invalid_signature |-> FALSE, replay |-> FALSE, rate |-> FALSE,
     blacklist |-> FALSE, profanity |-> FALSE, injection |-> FALSE]

NoGuard == [action |-> "unset", reasons |-> <<>>, sanitized_text |-> <<>>, ttl_seconds |-> 0]

\* guard_node(state)
GuardNode ==
    /\ gcalls < MaxGuardCalls
    /\ \E in \in GuardInputs :
        \E a1 \in {GuardSignature(GuardStart(in), in)} :
        \E a2 \in {GuardReplay(a1, in)} :
        \E a3 \in {GuardRate(a2, in)} :
        \E a4 \in {GuardBlacklist(a3, in)} :
        \E a5 \in {GuardProfanity(a4, in)} :
        \E acc \in {GuardInjection(a5, in)} :
        \E sanitized \in {sanitize(in.text, in.policy)} :
             /\ guard' = [action |-> acc.action, reasons |-> acc.reasons,
                          sanitized_text |-> sanitized, ttl_seconds |-> acc.ttl]
             /\ gintake' = [raw_text |-> IF acc.action = "pass" THEN sanitized ELSE in.text,
                             given |-> in.text, input |-> in]
             /\ gseen' = acc.gseen
             /\ grate' = acc.grate
             /\ gsignals' = SignalsOf(in)
    /\ gcalls' = gcalls + 1

----------------------------------------------------------------------------
InitGuard ==
    /\ gseen = [k \in GuardReqIds |-> NoKey]
    /\ grate = [k \in ChatIds \X Windows |-> NoKey]
    /\ guard = NoGuard
    /\ gintake = [raw_text |-> <<>>, given |-> <<>>,
                  input |-> [text |-> <<>>, request_id |-> NoReqId,
                             invalid_signature |-> FALSE, chat_id |-> "anon",
                             policy |-> BasePolicy, redis |-> FALSE]]
    /\ gsignals = NoSignals
    /\ gcalls = 0

\* guard_node executions that run side by side, in worker processes that
\* share the Redis
RateProcs == 1..NRate

\* state["policy"]["guard"] of the concurrent executions
RatePolicy == [BasePolicy EXCEPT !.per_user_burst_window_s = 120]

InitRate ==
    rp = [p \in RateProcs |-> [pc |-> "new", key |-> <<"anon", 0>>, count |-> 0,
                               flagged |-> FALSE]]

\* guard_node, lines 69-75: the window key from the clock, then
\* redis.incr, which adds one and returns the new count in one step
RateIncr(p) ==
    /\ rp[p].pc = "new"
    /\ \E chat \in ChatIds :
          LET key == RateKey([chat_id |-> chat, policy |-> RatePolicy])
          IN  /\ rp' = [rp EXCEPT ![p] = [pc |-> "counted", key |-> key,
                                          count |-> IncrCount(grate, key, now),
                                          flagged |-> FALSE]]
              /\ grate' = IncrStore(grate, key, now)
    /\ UNCHANGED <<gseen, guard, gintake, gsignals, gcalls>>

\* guard_node, lines 77-83: the expiry after a first count, then the
\* count is held against the limit
RateCompare(p) ==
    /\ rp[p].pc = "counted"
    /\ grate' = IF rp[p].count = 1 /\ Live(grate, rp[p].key, now)
                THEN [grate EXCEPT ![rp[p].key].exp =
                         now + RatePolicy.per_user_burst_window_s]
                ELSE grate
    /\ rp' = [rp EXCEPT ![p].pc = "done",
                        ![p].flagged = rp[p].count > RatePolicy.per_user_burst_n]
    /\ UNCHANGED <<gseen, guard, gintake, gsignals, gcalls>>

----------------------------------------------------------------------------
(* The workflow graph: graph/workflow.py, agents/ops_agent.py,              *)
(* agents/supplier_agent.py                                                 *)

\* An IntakeOutput as the routers read it; `present` is FALSE for a key the
\* state dict does not hold
AbsentOut ==
    [present |-> FALSE, risk_flags |-> {}, duplicate |-> FALSE,
     intent |-> "", slot_gaps |-> FALSE, language |-> ""]

\* intake_router(state)
intake_router(s) ==
    LET intake_output == s.agents_intake
    IN  IF ~intake_output.present THEN "Ops"
        ELSE IF intake_output.risk_flags \cap {"invalid_signature", "spam", "blacklist_hit"} # {}
             THEN "Guard"
        ELSE IF intake_output.duplicate THEN "drop"
        ELSE IF intake_output.intent = "unsupported" THEN "Ops"
        ELSE IF intake_output.slot_gaps THEN "Clarify"
        ELSE IF intake_output.language \notin {"en", "hi"} THEN "Translate"
        ELSE "Cluster"

\* guard_router(state): state["guard"] is read with .get("action"), which a
\* dict has and the GuardResult object guard_node stores has not
guard_router(s) ==
    IF s.guard_is_model THEN "AttributeError"
    ELSE IF s.guard.action = "pass" THEN "Cluster"
    ELSE IF s.guard.action = "clarify" THEN "Clarify"
    ELSE IF s.guard.action = "ops" THEN "Ops"
    ELSE "__end__"

\* The failures the router asks for before it escalates, line 161
ClarifyFailuresN == 2

\* A time key the state dict does not hold
NoTime == 0 - 1

\* The router of Clarify with the wall clock in the place of
\* state["now_utc"]
clarify_router_wall_clock(s) ==
    IF s.clarify.pending_slots
    THEN IF /\ s.clarify.deadline_utc # NoTime
            /\ now > s.clarify.deadline_utc
            /\ s.clarify.failures >= ClarifyFailuresN
         THEN "Ops"
         ELSE "Clarify"
    ELSE IF s.clarify.next_hint = "cluster" THEN "Cluster"
    ELSE IF s.clarify.next_hint = "cash" THEN "Cash"
    ELSE "Cluster"

\* clarify_router(state)
clarify_router(s) ==
    IF s.clarify.pending_slots
    THEN IF /\ s.now_utc # NoTime
            /\ s.clarify.deadline_utc # NoTime
            /\ s.now_utc > s.clarify.deadline_utc
            /\ s.clarify.failures >= ClarifyFailuresN
         THEN "Ops"
         ELSE "Clarify"
    ELSE IF s.clarify.next_hint = "cluster" THEN "Cluster"
    ELSE IF s.clarify.next_hint = "cash" THEN "Cash"
    ELSE "Cluster"

\* route_after_cluster(state)
route_after_cluster(s) == IF ~s.clustered_suppliers THEN "Commit" ELSE "Supplier"

\* policy.get("min_quote_cred", 0.5), in hundredths
MinQuoteCredDefault == 50

\* The round below which the router asks for another round, line 194
RouterMaxRounds == 2

\* supplier_router(state); credibility in hundredths
supplier_router(s) ==
    IF s.supplier.shortlist # <<>>
    THEN IF s.supplier.shortlist[1] >= MinQuoteCredDefault
         THEN IF s.policy.prepay_required THEN "Cash" ELSE "Commit"
         ELSE "Ops"
    ELSE IF s.supplier.rfp_round < RouterMaxRounds /\ s.has_candidates
         THEN "Supplier"
    ELSE IF s.supplier.fallback_quote THEN "Ops" ELSE "Ops"

\* commit_router(state), on state["commit"]["status"]
commit_router(status) ==
    IF status \in {"placed", "reserved", "awaiting_supplier_ack", "backorder"}
    THEN "Learn"
    ELSE IF status = "failed" THEN "Ops"
    ELSE "Commit"

\* res.startswith("reroute:"), and the target after the colon
IsReroute(res) == res \in {"reroute:Guard", "reroute:Clarify", "reroute:Cash",
                           "reroute:Supplier", "reroute:ExpandSupply"}
RerouteTarget(res) ==
    CASE res = "reroute:Guard" -> "Guard"
      [] res = "reroute:Clarify" -> "Clarify"
      [] res = "reroute:Cash" -> "Cash"
      [] res = "reroute:Supplier" -> "Supplier"
      [] OTHER -> "ExpandSupply"

\* ops_router(state)
ops_router(s) ==
    IF s.ops.status \in {"open", "acked"} THEN "Ops"
    ELSE IF IsReroute(s.ops.resolution) THEN RerouteTarget(s.ops.resolution)
    ELSE IF s.ops.resolution = "approved"
         THEN IF "cash_not_confirmed" \in s.ops.notes THEN "Cash"
              ELSE IF s.cluster THEN "Supplier"
              ELSE "Learn"
    ELSE IF s.ops.resolution \in {"denied", "canceled"} THEN "Clarify"
    ELSE "Learn"

\* route_after_cash(state)
route_after_cash(s) == IF s.cash_risk_high THEN "END" ELSE "Learn"

\* The conditional edges: the step a router's token stands for, "END", or
\* "crashed" for a token the edge's mapping does not hold
Edge(step, token) ==
    CASE step = "Intake" ->
            IF token = "drop" THEN "END" ELSE token
      [] step = "Guard" ->
            IF token = "__end__" THEN "END"
            ELSE IF token \in {"Cluster", "Clarify", "Ops"} THEN token
            ELSE "crashed"
      [] step = "Ops" ->
            IF token \in {"Ops", "Clarify", "Cash", "Supplier", "Learn"}
            THEN token ELSE "crashed"
      [] OTHER -> token

NoSupplier ==
    [rfp_round |-> 0, rfp_id |-> "", shortlist |-> <<>>, fallback_quote |-> FALSE,
     fallback_amount_inr |-> 0, risk_flags |-> <<>>]
NoClarify ==
    [pending_slots |-> FALSE, failures |-> 0, deadline_utc |-> NoTime,
     next_hint |-> "none"]
NoOps == [status |-> "none", resolution |-> "", notes |-> {}]

\* The state dict before a run, with none of the keys the steps write;
\* rfp_quotes is kept beside it: the number of quotes dao.fetch_quotes
\* returned to the Supplier step
BlankState ==
    [body |-> <<>>, intake |-> AbsentOut, agents_intake |-> AbsentOut,
     has_dao |-> FALSE, has_policy |-> FALSE,
     policy |-> [prepay_required |-> FALSE, shortlist_k |-> 0],
     search_k |-> 0, rfp_quotes |-> 0,
     guard |-> NoGuard, guard_is_model |-> FALSE, has_events |-> FALSE,
     clarify |-> NoClarify, now_utc |-> NoTime,
     cluster |-> FALSE, clustered_suppliers |-> FALSE, has_candidates |-> FALSE,
     supplier |-> NoSupplier, cash_status |-> "none", cash_risk_high |-> FALSE,
     commit_status |-> "unset", commit_risk_flags |-> <<>>, ops |-> NoOps,
     events |-> <<>>]

\* whatsapp_hook, lines 58-82: the initial state the webhook builds
WebhookState(body, valid_signature) ==
    [BlankState EXCEPT
        !.body = body,
        !.intake = [present |-> TRUE,
                    risk_flags |-> IF valid_signature THEN {} ELSE {"invalid_signature"},
                    duplicate |-> FALSE, intent |-> "unknown",
                    slot_gaps |-> FALSE, language |-> "en"]]

\* What a caller of the compiled workflow may put under agents.intake.output
\* What a caller may put under "supplier": nothing, or the output of an
\* RFP round with one shortlisted quote (credibility in hundredths)
CallerSuppliers ==
    { NoSupplier,
      [NoSupplier EXCEPT !.rfp_round = 1, !.rfp_id = "rfp1", !.shortlist = <<60>>],
      [NoSupplier EXCEPT !.rfp_round = 1, !.rfp_id = "rfp1", !.shortlist = <<40>>] }

\* The functions a graph may have at its Supplier step: line 97 wires
\* supplier_agent_node; supplier_node is the RFP step of supplier_agent.py
SupplierSteps == {"supplier_agent_node", "supplier_node"}

CallerOutputs ==
    { AbsentOut,
      [present |-> TRUE, risk_flags |-> {}, duplicate |-> FALSE,
       intent |-> "place_order", slot_gaps |-> FALSE, language |-> "en"],
      [present |-> TRUE, risk_flags |-> {"invalid_signature"}, duplicate |-> FALSE,
       intent |-> "place_order", slot_gaps |-> FALSE, language |-> "en"],
      [present |-> TRUE, risk_flags |-> {}, duplicate |-> FALSE,
       intent |-> "place_order", slot_gaps |-> TRUE, language |-> "en"],
      [present |-> TRUE, risk_flags |-> {}, duplicate |-> FALSE,
       intent |-> "place_order", slot_gaps |-> FALSE, language |-> "fr"],
      [present |-> TRUE, risk_flags |-> {}, duplicate |-> TRUE,
       intent |-> "place_order", slot_gaps |-> FALSE, language |-> "en"] }

\* The versions of the policy file a reload may load
PolicyVersions == {[shortlist_k |-> 2], [shortlist_k |-> 3]}

\* IntakeOutput.channel: the values the Literal admits, and the values a
\* caller may put under state["channel"]
Channels == {"whatsapp", "web", "ops_console"}
CallerChannels == {"whatsapp", "telegram"}

InitFlow ==
    /\ policy_store = [shortlist_k |-> 3]
    /\ fpc = "idle"
    /\ fs = BlankState
    /\ fpath = <<>>
    /\ fin = [origin |-> "none", valid_signature |-> TRUE,
              supplier_step |-> "supplier_agent_node", channel |-> "whatsapp"]

\* whatsapp_hook, line 87: the webhook runs the graph on the state it built
FlowStartWebhook ==
    /\ fpc = "idle"
    /\ \E q \in Requests, sig \in BOOLEAN :
          /\ fs' = WebhookState(q.body, sig)
          /\ fin' = [origin |-> "webhook", valid_signature |-> sig,
                     supplier_step |-> "supplier_agent_node", channel |-> "whatsapp"]
    /\ fpc' = "Intake"
    /\ UNCHANGED fpath

\* compiled_workflow.ainvoke(initialize_state(**kwargs)) by any other
\* caller: events, policy and agents are there, and kwargs holds the keys
\* the steps and routers read
FlowStartDirect ==
    /\ fpc = "idle"
    /\ \E q \in Requests, out \in CallerOutputs, sup \in CallerSuppliers,
          step \in SupplierSteps, channel \in CallerChannels,
          dao \in BOOLEAN, prepay \in BOOLEAN, clustered \in BOOLEAN,
          cands \in BOOLEAN, cash \in {"none", "confirmed"} :
          /\ fs' = [WebhookState(q.body, TRUE) EXCEPT
                       !.agents_intake = out, !.has_dao = dao, !.has_events = TRUE,
                       !.has_policy = TRUE,
                       !.policy = [prepay_required |-> prepay,
                                   shortlist_k |-> policy_store.shortlist_k],
                       !.clustered_suppliers = clustered, !.has_candidates = cands,
                       !.supplier = sup, !.cash_status = cash]
          /\ fin' = [origin |-> "direct", valid_signature |-> TRUE,
                     supplier_step |-> step, channel |-> channel]
    /\ fpc' = "Intake"
    /\ UNCHANGED fpath

\* A step may run: the graph is at it, and the run is within the bound
AtStep(step) == fpc = step /\ Len(fpath) < MaxFlowSteps

\* intake_node, then intake_router: state["intake"] is replaced by the
\* pipeline's output, which carries no risk flag and no duplicate mark
\* (the pipeline is called without a msg_sid). When the channel is not
\* one IntakeOutput admits, the constructor raises ValidationError, and the
\* handler's fallback, built with the same channel, raises it again
FlowIntake ==
    /\ AtStep("Intake")
    /\ IF fin.channel \notin Channels
       THEN /\ fpc' = "crashed"
            /\ UNCHANGED fs
       ELSE LET out == IntakeOutputOf("req_unknown", fs.body, FALSE)
                s1  == [fs EXCEPT !.intake =
                           [present |-> TRUE, risk_flags |-> {}, duplicate |-> out.duplicate,
                            intent |-> out.intent, slot_gaps |-> FALSE, language |-> "en"]]
            IN  /\ fs' = s1
                /\ fpc' = Edge("Intake", intake_router(s1))
    /\ fpath' = Append(fpath, "Intake")
    /\ UNCHANGED fin

\* guard_node's policy when state["policy"]["guard"] is not set: the
\* defaults of its policy.get calls
DefaultGuardPolicy ==
    [drop_on_invalid_signature |-> TRUE, dedupe_ttl_s |-> 120,
     per_user_burst_n |-> 5, per_user_burst_window_s |-> 30,
     blacklist_words |-> <<>>, allow_profanity |-> FALSE, allow_links |-> TRUE]

\* What guard_node reads from the state of a run: no Redis handle, no
\* chat_id in intake.meta
FlowGuardInput(s) ==
    [text |-> s.body, request_id |-> "req_unknown",
     invalid_signature |-> "invalid_signature" \in s.intake.risk_flags,
     chat_id |-> "anon", policy |-> DefaultGuardPolicy, redis |-> FALSE]

\* guard_node, then guard_router: state["guard"] becomes a GuardResult
FlowGuard ==
    /\ AtStep("Guard")
    /\ LET in  == FlowGuardInput(fs)
           acc == GuardInjection(GuardProfanity(GuardBlacklist(GuardRate(
                     GuardReplay(GuardSignature(GuardStart(in), in), in), in), in), in), in)
           s1  == [fs EXCEPT !.guard =
                      [action |-> acc.action, reasons |-> acc.reasons,
                       sanitized_text |-> sanitize(in.text, in.policy),
                       ttl_seconds |-> acc.ttl],
                             !.guard_is_model = TRUE]
       IN  /\ fs' = s1
           /\ fpc' = Edge("Guard", guard_router(s1))
    /\ fpath' = Append(fpath, "Guard")
    /\ UNCHANGED fin

\* ops_node, then ops_router: the task is (re)opened; state["dao"] must be
\* there
FlowOps ==
    /\ AtStep("Ops")
    /\ IF ~fs.has_dao
       THEN /\ fpc' = "crashed"
            /\ UNCHANGED fs
       ELSE LET s1 == [fs EXCEPT !.ops = [status |-> "open", resolution |-> "",
                                          notes |-> {}]]
            IN  /\ fs' = s1
                /\ fpc' = Edge("Ops", ops_router(s1))
    /\ fpath' = Append(fpath, "Ops")
    /\ UNCHANGED fin

\* The resolutions an Ops callback may write
OpsResolutions ==
    {"approved", "denied", "canceled", "reroute:Supplier", "reroute:Cash",
     "reroute:Clarify", "reroute:Guard"}

\* The run waits at Ops with an open task; the callback of the Ops team
\* resolves the task, and the run resumes at ops_router
FlowOpsResolve ==
    /\ fpc = "Ops"
    /\ fs.ops.status = "open"
    /\ \E res \in OpsResolutions :
          LET s1 == [fs EXCEPT !.ops.status = "resolved", !.ops.resolution = res]
          IN  /\ fs' = s1
              /\ fpc' = Edge("Ops", ops_router(s1))
    /\ UNCHANGED <<fpath, fin>>

\* Seconds a Clarify question waits for its answer
ClarifyWait == 60

\* The Clarify step, then clarify_router: the deadline is set at the first
\* entry; the user's answer fills the slots, or the attempt fails
FlowClarify ==
    /\ AtStep("Clarify")
    /\ \E answered \in BOOLEAN, hint \in {"cluster", "cash"} :
          LET dl == IF fs.clarify.deadline_utc = NoTime
                    THEN now + ClarifyWait ELSE fs.clarify.deadline_utc
              s1 == [fs EXCEPT
                        !.now_utc = now,
                        !.clarify =
                           IF answered
                           THEN [@ EXCEPT !.pending_slots = FALSE, !.next_hint = hint,
                                          !.deadline_utc = dl]
                           ELSE [@ EXCEPT !.pending_slots = TRUE,
                                          !.failures = @ + 1,
                                          !.deadline_utc = dl]]
          IN  /\ fs' = s1
              /\ fpc' = Edge("Clarify", clarify_router(s1))
    /\ fpath' = Append(fpath, "Clarify")
    /\ UNCHANGED fin

\* The Translate step, then the edge back to Intake
FlowTranslate ==
    /\ AtStep("Translate")
    /\ fpc' = "Intake"
    /\ fpath' = Append(fpath, "Translate")
    /\ UNCHANGED <<fs, fin>>

\* cluster_agent_node, then route_after_cluster
FlowCluster ==
    /\ AtStep("Cluster")
    /\ LET s1 == [fs EXCEPT !.cluster = TRUE]
       IN  /\ fs' = s1
           /\ fpc' = route_after_cluster(s1)
    /\ fpath' = Append(fpath, "Cluster")
    /\ UNCHANGED fin

\* cluster["price_band_inr"][1]
PriceBandHi == 2000

\* The number of quotes dao.fetch_quotes returns at the end of a round
QuoteCounts == {0, 1}

\* supplier_node: with no quote the fallback is built; with a quote,
\* score_quote is handed q.dict() and reads q.amount_inr, which raises
supplier_node(s, nquotes) ==
    [s EXCEPT !.supplier =
        [rfp_round |-> s.supplier.rfp_round + 1,
         rfp_id |-> IF s.supplier.rfp_id # "" THEN s.supplier.rfp_id ELSE "rfp1",
         shortlist |-> <<>>,
         fallback_quote |-> TRUE,
         fallback_amount_inr |-> (PriceBandHi * 11) \div 10,
         risk_flags |-> <<"no_market_quotes">>]]

\* supplier_discovery_node: the search result goes to state["suppliers"]
\* and an event is appended; state["supplier"] is not written. The k of
\* the search is policy.get().negotiation.shortlist_k, read when the step
\* runs
supplier_discovery_node(s) ==
    [s EXCEPT !.search_k = policy_store.shortlist_k,
              !.events = Append(@, "processed")]

\* The Supplier step, then supplier_router
FlowSupplier ==
    /\ AtStep("Supplier")
    /\ IF fin.supplier_step = "supplier_agent_node"
       THEN IF ~fs.has_events \/ ~fs.agents_intake.present
            THEN /\ fpc' = "crashed"
                 /\ UNCHANGED fs
            ELSE LET s1 == supplier_discovery_node(fs)
                 IN  /\ fs' = s1
                     /\ fpc' = supplier_router(s1)
       ELSE \E nquotes \in QuoteCounts :
               IF ~fs.cluster \/ ~fs.has_policy
               THEN /\ fpc' = "crashed"
                    /\ UNCHANGED fs
               ELSE IF nquotes > 0
               THEN /\ fpc' = "crashed"
                    /\ fs' = [fs EXCEPT !.rfp_quotes = nquotes]
               ELSE LET s1 == supplier_node(fs, nquotes)
                    IN  /\ fs' = s1
                        /\ fpc' = supplier_router(s1)
    /\ fpath' = Append(fpath, "Supplier")
    /\ UNCHANGED fin

\* commit_node, then commit_router: the quote is shortlist[0]; the customer
\* is new when state["customer"] is not set, the quantity 1
FlowCommit ==
    /\ AtStep("Commit")
    /\ IF ~fs.has_policy \/ fs.supplier.shortlist = <<>> \/ ~fs.cluster
       THEN /\ fpc' = "crashed"
            /\ UNCHANGED fs
       ELSE \E reserved \in BOOLEAN :
               LET failed == /\ must_prepay(fs.policy.prepay_required, TRUE, 1)
                             /\ fs.cash_status # "confirmed"
                   s1 == [fs EXCEPT
                             !.commit_status =
                                 IF failed THEN "failed"
                                 ELSE IF reserved THEN "reserved"
                                 ELSE "awaiting_supplier_ack",
                             !.commit_risk_flags =
                                 IF failed THEN <<"cash_not_confirmed">>
                                 ELSE IF reserved THEN <<>>
                                 ELSE <<"no_capacity_reservation">>]
               IN  /\ fs' = s1
                   /\ fpc' = commit_router(s1.commit_status)
    /\ fpath' = Append(fpath, "Commit")
    /\ UNCHANGED fin

\* cash_agent_node, then route_after_cash: with no final_order in the
\* state the node returns no update
FlowCash ==
    /\ AtStep("Cash")
    /\ fpc' = route_after_cash(fs)
    /\ fpath' = Append(fpath, "Cash")
    /\ UNCHANGED <<fs, fin>>

\* learn_node, then the edge to END; state["dao"] must be there, and
\* state["order_id"], which a commit past its precondition has set
FlowLearn ==
    /\ AtStep("Learn")
    /\ fpc' = IF fs.has_dao /\ fs.commit_status \in {"reserved", "awaiting_supplier_ack"}
              THEN "END" ELSE "crashed"
    /\ fpath' = Append(fpath, "Learn")
    /\ UNCHANGED <<fs, fin>>

\* reload_policy: POST /policy/reload replaces the process-wide policy by
\* what the policy file holds now
PolicyReload ==
    /\ \E v \in PolicyVersions : policy_store' = v
    /\ policy_store' # policy_store

----------------------------------------------------------------------------
(* The payment tool: tools/razorpay_tools.py, utils/redis_utils.py *)

Receipts == {"rcpt1", "rcpt2"}

InitRetry ==
    /\ redis_client = "unset"
    /\ retry_stream = <<>>
    /\ payres = [r \in Receipts |-> "none"]

NotRetry == UNCHANGED <<now, commitVars, hookVars, guardVars, flowVars, rp,
                        policy_store, rfp, cashVars>>

\* redis_utils, lines 7-18: at import the client is built and pinged; when
\* the ping cannot connect, redis_client is None from then on
RetryImport ==
    /\ redis_client = "unset"
    /\ \E server_up \in BOOLEAN :
          redis_client' = IF server_up THEN "up" ELSE "none"
    /\ UNCHANGED <<retry_stream, payres>>

\* The Redis server behind the client goes away, or comes back
RetryServerFlip ==
    /\ redis_client \in {"up", "down"}
    /\ redis_client' = IF redis_client = "up" THEN "down" ELSE "up"
    /\ UNCHANGED <<retry_stream, payres>>

\* add_to_retry_stream(task_details): the stream after the call. With no
\* client nothing is added; an XADD that raises is caught and adds nothing
add_to_retry_stream(stream, client, receipt) ==
    IF client = "up" THEN Append(stream, receipt) ELSE stream

\* How client.order.create may end
OrderOutcomes == {"created", "ConnectionError", "Exception"}

\* create_payment_order(amount, currency, receipt)
create_payment_order ==
    /\ redis_client # "unset"
    /\ Len(retry_stream) < MaxRetryTasks
    /\ \E receipt \in Receipts, outcome \in OrderOutcomes :
          CASE outcome = "created" ->
                  /\ payres' = [payres EXCEPT ![receipt] = "created"]
                  /\ UNCHANGED retry_stream
            [] outcome = "ConnectionError" ->
                  /\ retry_stream' = add_to_retry_stream(retry_stream, redis_client, receipt)
                  /\ payres' = [payres EXCEPT ![receipt] = "retry_queued"]
            [] OTHER ->
                  /\ payres' = [payres EXCEPT ![receipt] = "failed"]
                  /\ UNCHANGED retry_stream
    /\ UNCHANGED redis_client

NextRetry ==
    \/ RetryImport /\ NotRetry
    \/ RetryServerFlip /\ NotRetry
    \/ create_payment_order /\ NotRetry

----------------------------------------------------------------------------
(* The Supplier step's wait for quotes: supplier_node, lines 67-93 *)

\* poll_every, seconds
PollEvery == 5

\* policy.get("shortlist_k", 3)
ShortlistK == 3

\* Seconds from the deadline's computation to the deadline (rfp_minutes),
\* and seconds the invitations take before the loop's first test
RfpWindows == {0, 5, 10, 12}
RfpLags == {0, 1, 3}

InitRfp ==
    rfp = [pc |-> "idle", clock |-> 0, deadline |-> 0, quotes |-> 0,
           polls |-> 0, found |-> 0, ended_at |-> 0]

NotRfp == UNCHANGED <<now, commitVars, hookVars, guardVars, flowVars, rp,
                      policy_store, retryVars, cashVars>>

\* Lines 67-87: the deadline is fixed, then the invitations go out
RfpStart ==
    /\ rfp.pc = "idle"
    /\ \E w \in RfpWindows, lag \in RfpLags :
          rfp' = [rfp EXCEPT !.pc = "test", !.deadline = w, !.clock = lag]

\* A supplier submits a quote for the RFP
RfpQuote ==
    /\ rfp.pc \in {"test", "sleep"}
    /\ rfp.quotes < MaxQuotes
    /\ rfp' = [rfp EXCEPT !.quotes = @ + 1]

\* Line 91: the loop goes on while the clock is before the deadline
RfpWaitOnForever(clock, deadline) == TRUE
RfpWaitOn(clock, deadline) == clock < deadline

\* dao.enough_quotes(rfp_id, k)
enough_quotes(n, k) == n >= k

\* Line 91: the loop's test
RfpTest ==
    /\ rfp.pc = "test"
    /\ rfp' = IF RfpWaitOn(rfp.clock, rfp.deadline)
              THEN [rfp EXCEPT !.pc = "sleep"]
              ELSE [rfp EXCEPT !.pc = "done", !.ended_at = rfp.clock]

\* Lines 92-94: the sleep, then the poll, which may leave the loop
RfpSleepPoll ==
    /\ rfp.pc = "sleep"
    /\ rfp.clock + PollEvery <= MaxRfpClock
    /\ LET t == rfp.clock + PollEvery
       IN  rfp' = IF enough_quotes(rfp.quotes, ShortlistK)
                  THEN [rfp EXCEPT !.pc = "done", !.clock = t, !.ended_at = t,
                                   !.polls = @ + 1, !.found = rfp.quotes]
                  ELSE [rfp EXCEPT !.pc = "test", !.clock = t,
                                   !.polls = @ + 1, !.found = rfp.quotes]

NextRfp ==
    \/ RfpStart /\ NotRfp
    \/ RfpQuote /\ NotRfp
    \/ RfpTest /\ NotRfp
    \/ RfpSleepPoll /\ NotRfp

----------------------------------------------------------------------------
(* The Cash step: agents/cash_agent.py, tools/postgis_tools.py *)

PaymentOrders == {"pay1", "pay2", "pay3"}

NoCash == [outcome |-> "none", error |-> "none"]

InitCash ==
    /\ ledgerCfg = [created |-> FALSE, unique |-> FALSE, up |-> FALSE]
    /\ ledger = [p \in PaymentOrders |-> 0]
    /\ cashres = [p \in PaymentOrders |-> NoCash]

NotCash == UNCHANGED <<now, commitVars, hookVars, guardVars, flowVars, rp,
                       policy_store, retryVars, rfp>>

\* The ledger table is created, with or without a unique transaction_id
LedgerCreate ==
    /\ ~ledgerCfg.created
    /\ \E u \in BOOLEAN : ledgerCfg' = [created |-> TRUE, unique |-> u, up |-> TRUE]
    /\ UNCHANGED <<ledger, cashres>>

\* The database goes away, or comes back
LedgerFlip ==
    /\ ledgerCfg.created
    /\ ledgerCfg' = [ledgerCfg EXCEPT !.up = ~@]
    /\ UNCHANGED <<ledger, cashres>>

\* record_transaction(transaction_id, ...): an INSERT, with no lookup
\* before it; any exception is rolled back and returned as {"error": ...}
record_transaction(rows, cfg, id) ==
    IF ~cfg.up THEN [rows |-> rows, error |-> "connection"]
    ELSE IF cfg.unique /\ rows[id] > 0
         THEN [rows |-> rows, error |-> "unique_violation"]
    ELSE [rows |-> [rows EXCEPT ![id] = @ + 1], error |-> "none"]

\* cash_agent_node(state), on state["final_order"]: its status, its
\* payment_order_id and its price
cash_agent_node ==
    /\ ledgerCfg.created
    /\ ledger["pay1"] + ledger["pay2"] + ledger["pay3"] < MaxLedgerRows
    /\ \E id \in PaymentOrders, committed \in BOOLEAN, price \in {0, 500} :
          IF ~committed \/ price = 0
          THEN /\ cashres' = [cashres EXCEPT ![id] = [outcome |-> "skipped", error |-> "none"]]
               /\ UNCHANGED ledger
          ELSE LET rec == record_transaction(ledger, ledgerCfg, id)
               IN  /\ ledger' = rec.rows
                   /\ cashres' = [cashres EXCEPT ![id] =
                         IF rec.error = "none"
                         THEN [outcome |-> "pending_manual_review", error |-> "none"]
                         ELSE [outcome |-> "failed", error |-> rec.error]]
    /\ UNCHANGED ledgerCfg

NextCash ==
    \/ LedgerCreate /\ NotCash
    \/ LedgerFlip /\ NotCash
    \/ cash_agent_node /\ NotCash

Init == InitCommit /\ now = 0 /\ InitHook /\ InitGuard /\ InitFlow /\ InitRate /\ InitRetry /\ InitRfp /\ InitCash

NotCommit == UNCHANGED <<now, hookVars, guardVars, flowVars, auxVars>>
NotHook == UNCHANGED <<commitVars, guardVars, flowVars, auxVars>>

NextCommit ==
    \/ \E i \in Inst : CommitInvoke(i) /\ NotCommit
    \/ \E i \in Inst : CommitRerun(i) /\ NotCommit
    \/ \E i \in Inst : CommitLookup(i) /\ NotCommit
    \/ \E i \in Inst : CommitCreateOrder(i) /\ NotCommit
    \/ \E i \in Inst : CommitGeneratePO(i) /\ NotCommit
    \/ \E i \in Inst : CommitSendPO(i) /\ NotCommit
    \/ \E i \in Inst : CommitReserve(i) /\ NotCommit
    \/ \E i \in Inst : CommitShipTask(i) /\ NotCommit
    \/ \E i \in Inst : CommitCrash(i) /\ NotCommit

NextCommitSeq ==
    \/ \E i \in Inst : Alone(i) /\ CommitInvoke(i) /\ NotCommit
    \/ \E i \in Inst : Alone(i) /\ CommitRerun(i) /\ NotCommit
    \/ \E i \in Inst : Alone(i) /\ CommitLookup(i) /\ NotCommit
    \/ \E i \in Inst : Alone(i) /\ CommitCreateOrder(i) /\ NotCommit
    \/ \E i \in Inst : Alone(i) /\ CommitGeneratePO(i) /\ NotCommit
    \/ \E i \in Inst : Alone(i) /\ CommitSendPO(i) /\ NotCommit
    \/ \E i \in Inst : Alone(i) /\ CommitReserve(i) /\ NotCommit
    \/ \E i \in Inst : Alone(i) /\ CommitShipTask(i) /\ NotCommit
    \/ \E i \in Inst : Alone(i) /\ CommitCrash(i) /\ NotCommit

NextHook ==
    \/ HookImport /\ UNCHANGED now /\ NotHook
    \/ \E d \in Deliveries : HookClaim(d) /\ UNCHANGED now /\ NotHook
    \/ \E d \in Deliveries : HookExpire(d) /\ UNCHANGED now /\ NotHook
    \/ \E d \in Deliveries : HookInvoke(d) /\ UNCHANGED now /\ NotHook
    \/ \E c \in PipeIds : PipeClaim(c) /\ UNCHANGED now /\ NotHook
    \/ \E c \in PipeIds : PipeExpire(c) /\ UNCHANGED now /\ NotHook
    \/ Tick /\ UNCHANGED hookVars /\ NotHook

NextHookCrash ==
    \/ HookImport /\ UNCHANGED now /\ NotHook
    \/ \E d \in Deliveries : HookClaim(d) /\ UNCHANGED now /\ NotHook
    \/ \E d \in Deliveries : HookExpire(d) /\ UNCHANGED now /\ NotHook
    \/ \E d \in Deliveries : HookCrash(d) /\ UNCHANGED now /\ NotHook
    \/ \E d \in Deliveries : HookInvoke(d) /\ UNCHANGED now /\ NotHook
    \/ Tick /\ UNCHANGED hookVars /\ NotHook

NextGuard ==
    \/ GuardNode /\ UNCHANGED <<now, commitVars, hookVars, flowVars, auxVars>>
    \/ Tick /\ UNCHANGED <<commitVars, hookVars, guardVars, flowVars, auxVars>>

NotFlow == UNCHANGED <<now, commitVars, hookVars, guardVars, auxVars>>

NextFlow ==
    \/ FlowStartWebhook /\ NotFlow
    \/ FlowStartDirect /\ NotFlow
    \/ FlowIntake /\ NotFlow
    \/ FlowGuard /\ NotFlow
    \/ FlowOps /\ NotFlow
    \/ FlowOpsResolve /\ NotFlow
    \/ FlowClarify /\ NotFlow
    \/ FlowTranslate /\ NotFlow
    \/ FlowCluster /\ NotFlow
    \/ FlowSupplier /\ NotFlow
    \/ FlowCommit /\ NotFlow
    \/ FlowCash /\ NotFlow
    \/ FlowLearn /\ NotFlow
    \/ PolicyReload /\ UNCHANGED <<now, commitVars, hookVars, guardVars, flowVars,
                                    rp, retryVars, rfp, cashVars>>
    \/ Tick /\ UNCHANGED <<commitVars, hookVars, guardVars, flowVars, auxVars>>

SpecFlow == Init /\ [][NextFlow]_vars
NextRate ==
    \/ \E p \in RateProcs :
          RateIncr(p) /\ UNCHANGED <<now, commitVars, hookVars, flowVars, policy_store, retryVars, rfp, cashVars>>
    \/ \E p \in RateProcs :
          RateCompare(p) /\ UNCHANGED <<now, commitVars, hookVars, flowVars, policy_store, retryVars, rfp, cashVars>>
    \/ Tick /\ UNCHANGED <<commitVars, hookVars, guardVars, flowVars, auxVars>>

SpecRate == Init /\ [][NextRate]_vars
SpecRetry == Init /\ [][NextRetry]_vars
SpecCash == Init /\ [][NextCash]_vars
SpecRfp ==
    /\ Init
    /\ [][NextRfp]_vars
    /\ WF_vars(RfpTest /\ NotRfp)
    /\ WF_vars(RfpSleepPoll /\ NotRfp)
SpecGuard == Init /\ [][NextGuard]_vars
SpecHook == Init /\ [][NextHook]_vars
SpecHookCrash == Init /\ [][NextHookCrash]_vars
SpecCommit == Init /\ [][NextCommit]_vars
SpecCommitSeq == Init /\ [][NextCommitSeq]_vars

----------------------------------------------------------------------------
(* Commit: claims C1 to C3 *)

SideEffectPcs == {"create", "pdf", "send", "reserve", "ship"}

\* Each order id has at most one create_order call, PO document, PO sent
\* and ship task
EffectsAtMostOnce ==
    \A o \in AllOrderIds :
       /\ createCalls[o] <= 1
       /\ poPdfs[o] <= 1
       /\ poSent[o] <= 1
       /\ shipTasks[o] <= 1

C2_ConcurrentCommitOnce ==
    \A o \in AllOrderIds :
       /\ Cardinality({r \in {orders[o]} : r # NoRow}) <= 1
       /\ poSent[o] <= 1

\* C3: once a re-run of a commit_node that crashed after create_order has
\* returned, the order has its PO sent exactly once and its ship task
\* created exactly once.
C3_CrashResumable ==
    \A i \in Inst :
       (resumed[i] /\ cpc[i] = "done") =>
          /\ poSent[pstate[i].order_id] = 1
          /\ shipTasks[pstate[i].order_id] = 1

----------------------------------------------------------------------------
(* The entry point: claims C4 to C7 *)

StoreUp == redisCfg = "up"

SameKey(d, e) == dreq[d].request_id = dreq[e].request_id

\* Delivery d made its claim inside the TTL window that f's claim opened
InWindowOf(f, d) ==
    /\ dres[f].at <= dres[d].at
    /\ dres[d].at < dres[f].at + IntakeSeenTTL

\* C4: with the store up, among the deliveries that carry one key and claim
\* it inside the TTL window of a first claim, that first claim is the only
\* one; every other is a duplicate, and every duplicate has a claimant
\* before it.
C4_AtomicClaim ==
    StoreUp =>
       /\ \A f, d \in Deliveries :
             (/\ f # d
              /\ dres[f].claim = "first"
              /\ dres[d].claim # "none"
              /\ SameKey(f, d)
              /\ InWindowOf(f, d)) => dres[d].claim = "duplicate"
       /\ \A d \in Deliveries :
             dres[d].claim = "duplicate" =>
                \/ \E f \in Deliveries :
                      /\ dres[f].claim = "first" /\ SameKey(f, d)
                      /\ dres[f].at <= dres[d].at
                \/ \E c \in PipeIds :
                      /\ ppc[c] # "new" /\ ~pcall[c].duplicate
                      /\ pcall[c].request_id = dreq[d].request_id

\* Three deliveries of one key at one time: the first still between its
\* setnx and its expire, the other two already answered as duplicates
C4_Witness ==
    /\ StoreUp
    /\ \E f \in Deliveries :
          /\ dpc[f] = "expire"
          /\ dres[f].claim = "first"
          /\ \A d \in Deliveries \ {f} :
                /\ SameKey(f, d)
                /\ dres[d].at = dres[f].at
                /\ dres[d].claim = "duplicate"

C6_RecordNeverUpdated ==
    [][\A k \in RequestIds :
          (/\ Live(seen, k, now)
           /\ seen[k].exp # NoTTL
           /\ Live(seen', k, now')) => seen'[k].exp = seen[k].exp]_vars

\* C7: under the fail-closed policy, no delivery runs any step while the
\* dedup store is unavailable.
C7_FailClosedHonoured ==
    (failPolicy = "closed" /\ redisCfg \in {"none", "down"}) =>
       \A d \in Deliveries : steps[d] = <<>>

----------------------------------------------------------------------------
(* Guard: claims C8 to C10 *)

\* The action of the highest signal in the order invalid signature > replay
\* > rate-limit > blacklist > profanity > injection
ExpectedAction(sig) ==
    IF sig.invalid_signature THEN "drop"
    ELSE IF sig.replay THEN "drop"
    ELSE IF sig.rate THEN "clarify"
    ELSE IF sig.blacklist THEN "ops"
    ELSE IF sig.profanity THEN "clarify"
    ELSE IF sig.injection THEN "clarify"
    ELSE "pass"

\* C8: the action of every guard_node call is the one of the highest
\* signal its input triggered.
C8_DecisionPrecedence ==
    gcalls > 0 => guard.action = ExpectedAction(gsignals)

\* C9: a guard_node call whose input carries invalid_signature, the policy
\* not disabling the drop, ends with the action drop.
C9_InvalidSignatureDrops ==
    (gcalls > 0 /\ gsignals.invalid_signature) => guard.action = "drop"

\* An invalid signature together with a replayed id, a burst over the
\* limit, a blacklisted word, profanity and an injection phrase: drop
C9_Witness ==
    /\ gcalls > 0
    /\ gsignals = [invalid_signature |-> TRUE, replay |-> TRUE, rate |-> TRUE,
                   blacklist |-> TRUE, profanity |-> TRUE, injection |-> TRUE]
    /\ guard.action = "drop"

\* C10: a guard_node call that ends with drop gives exactly the one reason
\* that caused it; a drop for an invalid signature leaves the replay keys
\* and the rate counters as they were, and a drop for a replay leaves the
\* rate counters as they were.
C10_ShortCircuitAfterDrop ==
    [][(gcalls' # gcalls /\ guard'.action = "drop") =>
          /\ guard'.reasons = IF gsignals'.invalid_signature
                              THEN <<"invalid_signature">>
                              ELSE <<"replay">>
          /\ gsignals'.invalid_signature => UNCHANGED <<gseen, grate>>
          /\ UNCHANGED grate]_vars

\* A drop for an invalid signature of a request whose id was already seen
\* and whose user is over the burst limit
C10_Witness ==
    /\ guard.action = "drop"
    /\ guard.reasons = <<"invalid_signature">>
    /\ gsignals.replay
    /\ gsignals.rate


-----------------------------------------------------------------------------
(* The workflow graph: claims C11 to C17 and C20 *)

\* The step that ran last in the run
LastStep == IF fpath = <<>> THEN "none" ELSE fpath[Len(fpath)]

\* A run the webhook started for a request whose signature is invalid
InvalidSignatureRun == fin.origin = "webhook" /\ ~fin.valid_signature

\* C11 as claimed: in a run the webhook starts for a request with an invalid
\* signature, invalid_signature is still in intake.risk_flags once Intake
\* has run, the step after Intake is Guard, and Guard's action is drop,
\* which ends the run.
C11_InvalidSignatureReachesGuard ==
    (InvalidSignatureRun /\ Len(fpath) >= 1) =>
       /\ "invalid_signature" \in fs.intake.risk_flags
       /\ IF Len(fpath) = 1 THEN fpc = "Guard" ELSE fpath[2] = "Guard"
       /\ Len(fpath) >= 2 => (fs.guard.action = "drop" /\ fpc = "END")

\* The destination the claim gives to each action token of Guard
GuardDestination(action) ==
    CASE action = "pass" -> "Cluster"
      [] action = "clarify" -> "Clarify"
      [] action = "ops" -> "Ops"
      [] action = "drop" -> "END"
      [] OTHER -> "none"

\* C12 as claimed: once Guard has run, its action is one of pass, clarify,
\* ops and drop, and the run stands at the one destination of that token:
\* Cluster, Clarify, Ops or the end of the run.
C12_GuardTokenDecoded ==
    LastStep = "Guard" =>
       /\ fs.guard.action \in {"pass", "clarify", "ops", "drop"}
       /\ fpc = GuardDestination(fs.guard.action)

\* An intake output without risk flag or slot gap, with a supported intent
\* and language
CleanOutput(out) ==
    /\ out.risk_flags = {}
    /\ ~out.slot_gaps
    /\ ~out.duplicate
    /\ out.intent # "unsupported"
    /\ out.language \in {"en", "hi"}

\* A run for a message with a valid signature whose intake output is clean,
\* under state["intake"] and, where the caller gave it, under
\* agents.intake.output
HappyRun ==
    /\ fin.origin # "none"
    /\ fin.valid_signature
    /\ Len(fpath) >= 1
    /\ CleanOutput(fs.intake)
    /\ fs.agents_intake.present => CleanOutput(fs.agents_intake)

\* C13 as claimed: a happy-path run goes from Intake to Guard, Guard's
\* action is pass, and the run goes on to Cluster; Ops, Clarify, Translate
\* and a drop are not among its first steps.
C13_HappyPathRouting ==
    HappyRun =>
       /\ IF Len(fpath) = 1 THEN fpc = "Guard" ELSE fpath[2] = "Guard"
       /\ Len(fpath) >= 2 =>
             /\ fs.guard.action = "pass"
             /\ IF Len(fpath) = 2 THEN fpc = "Cluster" ELSE fpath[3] = "Cluster"

\* The number of Clarify executions at the end of the run's path
TrailingClarify ==
    LET AllClarify(n) == \A k \in (Len(fpath) - n + 1)..Len(fpath) : fpath[k] = "Clarify"
    IN  CHOOSE n \in 0..Len(fpath) :
           /\ AllClarify(n)
           /\ n < Len(fpath) => fpath[Len(fpath) - n] # "Clarify"

\* C14 as claimed: the consecutive re-entries of Clarify (its executions in
\* a row, less the first) never exceed the retry limit, and a run whose
\* failures have reached the limit does not stand at Clarify again.
C14_BoundedClarifyLoop ==
    /\ TrailingClarify <= ClarifyFailuresN + 1
    /\ (LastStep = "Clarify" /\ fs.clarify.pending_slots
          /\ fs.clarify.failures > ClarifyFailuresN) => fpc # "Clarify"

\* What each router returns on the state of the run
RouterTokens ==
    [intake_router |-> intake_router(fs),
     guard_router |-> guard_router(fs),
     clarify_router |-> clarify_router(fs),
     supplier_router |-> supplier_router(fs),
     commit_router |-> commit_router(fs.commit_status),
     ops_router |-> ops_router(fs),
     route_after_cluster |-> route_after_cluster(fs),
     route_after_cash |-> route_after_cash(fs)]

C16_FallbackProceedsToCommit ==
    (LastStep = "Supplier" /\ fpc # "crashed" /\ fs.supplier.shortlist = <<>>) =>
       /\ fs.supplier.fallback_quote
       /\ fs.supplier.fallback_amount_inr * 10 = PriceBandHi * 11
       /\ fs.supplier.risk_flags = <<"no_market_quotes">>
       /\ fpc = "Commit"

\* The executions of the Supplier step in the run
SupplierRuns == Cardinality({k \in 1..Len(fpath) : fpath[k] = "Supplier"})

\* C17 as claimed: the round number of the RFP never exceeds the maximum
\* number of rounds, and neither does the number of executions of the
\* Supplier step that asked for them, re-entries through Ops included.
C17_RoundProgression ==
    /\ fs.supplier.rfp_round <= RouterMaxRounds
    /\ fpc # "crashed" => SupplierRuns <= RouterMaxRounds

\* C20 as claimed: a run in which Guard resolved to drop, or whose Ops task
\* was resolved as denied or canceled, stands at its end, and a terminal
\* event is in the state's events.
C20_TerminationRecorded ==
    /\ (LastStep = "Guard" /\ fs.guard.action = "drop") =>
          (fpc = "END" /\ "terminal" \in {fs.events[k] : k \in 1..Len(fs.events)})
    /\ (LastStep = "Ops" /\ fs.ops.status = "resolved"
          /\ fs.ops.resolution \in {"denied", "canceled"}) =>
          (fpc = "END" /\ "terminal" \in {fs.events[k] : k \in 1..Len(fs.events)})


-----------------------------------------------------------------------------
(* Commit: claims C18 and C19 *)

\* The policy requires prepay for the order an invocation was given: prepay
\* is required, and the customer is new or the amount at or above the
\* threshold
PrepayDemanded(inp) ==
    /\ inp.prepay_required
    /\ inp.is_new \/ Quote.amount_inr * inp.qty >= PrepayThresholdDefault

\* The outside effects of commit_node
CommitEffects == <<orders, createCalls, poPdfs, poSent, reserveCalls, shipTasks>>

\* C18: no invocation whose order requires prepay while cash.status is not
\* confirmed gets past the precondition; the step in which commit_node
\* returns the failed record changes no order row, PO, notification,
\* reservation or ship task; the failed record carries cash_not_confirmed
\* and no PO, and commit_router sends it to Ops.
C18_PrepayHardStop ==
    /\ [](\A i \in Inst :
             cpc[i] \in RunningPcs =>
                ~(PrepayDemanded(cin[i]) /\ cin[i].cash_status # "confirmed"))
    /\ [](\A i \in Inst :
             pstate[i].commit.status = "failed" =>
                /\ pstate[i].commit.risk_flags = <<"cash_not_confirmed">>
                /\ pstate[i].commit.po_id = ""
                /\ commit_router(pstate[i].commit.status) = "Ops")
    /\ [][ \A i \in Inst :
              (runs' # runs /\ cpc'[i] = "done"
                  /\ pstate'[i].commit.status = "failed") =>
                 UNCHANGED CommitEffects ]_vars

\* A first invocation has returned the failed record for an order id that
\* has no row, no PO, no notification, no reservation and no ship task
C18_Witness ==
    \E i \in Inst :
       /\ cpc[i] = "done"
       /\ pstate[i].commit.status = "failed"
       /\ pstate[i].commit.risk_flags = <<"cash_not_confirmed">>
       /\ LET o == pstate[i].commit.order_id
          IN  /\ orders[o] = NoRow
              /\ createCalls[o] = 0
              /\ poPdfs[o] = 0
              /\ poSent[o] = 0
              /\ reserveCalls[o] = 0
              /\ shipTasks[o] = 0
       /\ commit_router(pstate[i].commit.status) = "Ops"

\* The commit record tells of a reservation that failed
ReserveFailed(cm) ==
    /\ cm.status # "unset"
    /\ \E k \in 1..Len(cm.events) : cm.events[k] = "reserve_failed"

\* C19: a commit whose capacity reservation failed is not failed: its status
\* is awaiting_supplier_ack with risk flag no_capacity_reservation, the
\* order row and the PO are there, the PO was sent, the ship task was
\* enqueued, and commit_router sends it to Learn.
C19_BestEffortReservation ==
    \A i \in Inst :
       ReserveFailed(pstate[i].commit) =>
          LET cm == pstate[i].commit
          IN  /\ cm.status = "awaiting_supplier_ack"
              /\ cm.risk_flags = <<"no_capacity_reservation">>
              /\ OrderExists(cm.order_id)
              /\ poPdfs[cm.order_id] >= 1
              /\ poSent[cm.order_id] >= 1
              /\ shipTasks[cm.order_id] >= 1
              /\ \E k \in 1..Len(cm.events) : cm.events[k] = "ship_task"
              /\ commit_router(cm.status) = "Learn"

\* A commit has completed after its reservation failed
C19_Witness ==
    \E i \in Inst :
       /\ cpc[i] = "done"
       /\ ReserveFailed(pstate[i].commit)
       /\ pstate[i].commit.status = "awaiting_supplier_ack"
       /\ reserveCalls[pstate[i].commit.order_id] >= 1
       /\ shipTasks[pstate[i].commit.order_id] >= 1


-----------------------------------------------------------------------------
(* The workflow graph and the webhook's response: claims C21 and C22 *)

\* C21 as claimed: once the Ops step has run and left its task open, the
\* step does not run again (and sends no second notification) before an
\* outside event has resolved the task: no two executions of Ops follow one
\* another in a run.
C21_SuspensionAtOps ==
    \A k \in 1..(Len(fpath) - 1) : ~(fpath[k] = "Ops" /\ fpath[k + 1] = "Ops")

\* C22 as claimed: every call of the webhook that has returned gave a
\* response whose status is ok, duplicate or dropped, never an error, and
\* the status is duplicate exactly when the dedup claim found the key
\* already present.
C22_ResponseReflectsOutcome ==
    \A d \in Deliveries :
       dpc[d] = "done" =>
          /\ dres[d].response.status \in {"ok", "duplicate", "dropped"}
          /\ dres[d].response.status = "duplicate" <=> dres[d].claim = "duplicate"


-----------------------------------------------------------------------------
(* Guard: claim C23 *)

\* The executions that counted themselves under a window key
CountedUnder(key) == {p \in RateProcs : rp[p].pc # "new" /\ rp[p].key = key}

\* C23: under every interleaving of the executions, for each user and
\* window at most per_user_burst_n executions get a count within the limit,
\* and every execution that has finished its check is flagged high_velocity
\* exactly when its count is above the limit.
C23_RateLimitAtomic ==
    \A key \in DOMAIN grate :
       /\ Cardinality({p \in CountedUnder(key) :
                          rp[p].count <= RatePolicy.per_user_burst_n})
             <= RatePolicy.per_user_burst_n
       /\ \A p \in CountedUnder(key) :
             rp[p].pc = "done" =>
                (rp[p].flagged <=> rp[p].count > RatePolicy.per_user_burst_n)

\* Four executions counted themselves in one window before any of them
\* compared: two got a count within the limit, the other two are flagged
C23_Witness ==
    \E key \in DOMAIN grate :
       /\ Cardinality(CountedUnder(key)) = 4
       /\ \A p \in RateProcs : rp[p].pc = "done"
       /\ Cardinality({p \in RateProcs : rp[p].flagged}) = 2
       /\ Cardinality({p \in RateProcs : ~rp[p].flagged}) = 2

----------------------------------------------------------------------------
(* The policy snapshot: claim C24 *)

\* The Supplier step wired into the graph has run in the current state
DiscoveryRan ==
    /\ fin.supplier_step = "supplier_agent_node"
    /\ fs.search_k # 0

\* C24: a run decides by the policy snapshot taken when its state was
\* initialized: the k the Supplier step searched with is the snapshot's
\* shortlist_k, whatever reloads happened while the run was in flight
C24_PolicySnapshotIsolation ==
    (DiscoveryRan /\ fs.has_policy) => fs.search_k = fs.policy.shortlist_k

----------------------------------------------------------------------------
(* Namespaces of the state: claim C25 *)

\* C25: Guard leaves the intake namespace as it found it: after a
\* guard_node call intake.raw_text is the text the call was given
C25_GuardLeavesIntake ==
    gcalls > 0 => gintake.raw_text = gintake.given

----------------------------------------------------------------------------
(* Intake's validation error: claim C26 *)

\* The Intake step has just run on an output that fails validation
IntakeValidationFailed ==
    /\ LastStep = "Intake"
    /\ fin.channel \notin Channels

\* C26: when Intake's output fails validation the run goes on: the state
\* holds the fallback output with the risk flag validation_error, and the
\* next step is Ops
C26_ValidationErrorToOps ==
    IntakeValidationFailed =>
        /\ fpc = "Ops"
        /\ "validation_error" \in fs.intake.risk_flags

----------------------------------------------------------------------------
(* The retry stream: claim C27 *)

TasksFor(receipt) == {k \in 1..Len(retry_stream) : retry_stream[k] = receipt}

\* C27: whenever create_payment_order has returned retry_queued for a
\* receipt, a retry task with that receipt is in the retry stream, and the
\* stream holds at most one task per receipt
C27_RetryDurablyQueued ==
    \A r \in Receipts :
       /\ payres[r] = "retry_queued" => TasksFor(r) # {}
       /\ Cardinality(TasksFor(r)) <= 1

----------------------------------------------------------------------------
(* The shortlist, and the order of the steps: claims C28 and C29 *)

MinOf(a, b) == IF a <= b THEN a ELSE b

\* C28: after a Supplier step that collected quotes, supplier.shortlist
\* holds the best of them, at most shortlist_k, by credibility descending
C28_ShortlistTopK ==
    (LastStep = "Supplier" /\ fs.rfp_quotes > 0) =>
        /\ fpc # "crashed"
        /\ Len(fs.supplier.shortlist) = MinOf(fs.rfp_quotes, ShortlistK)
        /\ \A i, j \in 1..Len(fs.supplier.shortlist) :
              i < j => fs.supplier.shortlist[i] >= fs.supplier.shortlist[j]

\* The steps named step that have run
Ran(step) == \E k \in 1..Len(fpath) : fpath[k] = step

\* The state holds a shortlist whose best quote the router accepts
AcceptableShortlist ==
    /\ fs.supplier.shortlist # <<>>
    /\ fs.supplier.shortlist[1] >= MinQuoteCredDefault

\* C29: a run whose Supplier step left an acceptable shortlist reaches
\* neither Learn nor the end without Commit having run, also when the
\* policy requires prepayment and the router goes from Supplier to Cash
C29_CommitPrecedesLearn ==
    (Ran("Supplier") /\ AcceptableShortlist /\ (Ran("Learn") \/ fpc = "END")) =>
        Ran("Commit")

----------------------------------------------------------------------------
(* The wait for quotes: claim C30 *)

\* The wait goes on only while no poll has found shortlist_k quotes, a
\* wait that a poll ended found them, and no poll is made at or after
\* the deadline plus one poll interval
RfpWaitBounded ==
    /\ (rfp.pc \in {"test", "sleep"} /\ rfp.polls > 0) =>
            ~enough_quotes(rfp.found, ShortlistK)
    /\ rfp.pc = "done" =>
            \/ rfp.polls > 0 /\ enough_quotes(rfp.found, ShortlistK)
            \/ rfp.ended_at >= rfp.deadline
    /\ rfp.polls > 0 => rfp.clock < rfp.deadline + PollEvery

\* C30: the Supplier step's wait for quotes ends as soon as a poll finds
\* shortlist_k quotes, and otherwise no later than the first poll after
\* the deadline; whatever the suppliers do, a wait that started ends
C30_RfpWaitTerminates ==
    /\ []RfpWaitBounded
    /\ (rfp.pc # "idle") ~> (rfp.pc = "done")

\* A wait that the deadline ended, with too few quotes at its last poll,
\* made after the deadline
C30_Witness ==
    /\ rfp.pc = "done"
    /\ rfp.polls > 0
    /\ ~enough_quotes(rfp.found, ShortlistK)
    /\ rfp.ended_at > rfp.deadline

----------------------------------------------------------------------------
(* Re-running Guard: claim C31 *)

\* This step is a guard_node call that re-runs the previous call: it reads
\* the state the previous call left, for the same request_id, while the
\* key guard:seen:<request_id> is alive
GuardRerun ==
    /\ gcalls > 0
    /\ gcalls' = gcalls + 1
    /\ gintake.input.request_id # NoReqId
    /\ Live(gseen, gintake.input.request_id, now)
    /\ gintake'.input = [gintake.input EXCEPT !.text = gintake.raw_text]

\* C31: a second guard_node run for the same request_id within the
\* dedupe TTL yields the action of the first run
C31_GuardReinvokable == [][GuardRerun => guard'.action = guard.action]_vars

----------------------------------------------------------------------------
(* Re-running Cash: claim C32 *)

\* C32: however often the Cash step runs for a committed order, the
\* ledger holds at most one transaction for its payment_order_id, and a
\* re-run does not attempt a second insert
C32_CashRecordsOnce ==
    \A id \in PaymentOrders :
       /\ ledger[id] <= 1
       /\ cashres[id].error # "unique_violation"

----------------------------------------------------------------------------
(* The routers' destinations: claim C33 *)

\* The destinations add_conditional_edge maps for Ops
OpsDestinations == {"Ops", "Clarify", "Cash", "Supplier", "Learn"}

\* C33: whatever resolution an Ops task carries, ops_router returns one
\* of the destinations mapped for Ops
C33_RouterTotality ==
    (LastStep = "Ops" /\ fs.ops.status = "resolved") =>
        ops_router(fs) \in OpsDestinations

----------------------------------------------------------------------------
(* The quote Commit reads: claim C34 *)

\* C34: whenever the graph is about to run commit_node, the state holds a
\* quote where commit_node reads it, in supplier.shortlist
C34_CommitHasQuote ==
    fpc = "Commit" => fs.supplier.shortlist # <<>>

----------------------------------------------------------------------------
(* Forged deliveries: claim C35 *)

\* C35: a delivery with a valid signature is answered as a duplicate only
\* because of an earlier delivery with a valid signature and the same
\* key; deliveries with an invalid signature do not make it a duplicate
C35_ForgedCannotSuppress ==
    \A d \in Deliveries :
       (dreq[d].valid_signature /\ dres[d].claim = "duplicate") =>
          \E f \in Deliveries \ {d} :
             /\ dreq[f].valid_signature
             /\ dres[f].claim = "first"
             /\ SameKey(f, d) /\ InWindowOf(f, d)

----------------------------------------------------------------------------
(* Keys without an expiry: claim C36 *)

\* C36: a claimed key carries a TTL; a key is without one only while the
\* delivery that claimed it is about to set it, also when a worker
\* process died between the claim and the expiry assignment
C36_ClaimedKeyExpires ==
    \A k \in RequestIds :
       (seen[k] # NoKey /\ seen[k].exp = NoTTL) =>
          \E d \in Deliveries : dpc[d] = "expire" /\ dreq[d].request_id = k

----------------------------------------------------------------------------
(* The commit record: claim C37 *)

\* CommitState.status
CommitStatuses == {"placed", "awaiting_supplier_ack", "reserved", "backorder", "failed"}

Has(seq, x) == \E k \in 1..Len(seq) : seq[k] = x

\* The commit record of an execution that created a new order
CreatedOrder(cm) == cm.status # "unset" /\ Has(cm.events, "po_created")

\* C37: a commit record of an execution that created an order has the
\* events po_created, po_sent, reserve_ok or reserve_failed, ship_task in
\* this order, its status is reserved exactly with reserve_ok and
\* awaiting_supplier_ack exactly with reserve_failed and the risk flag
\* no_capacity_reservation; every commit record's status is one of
\* CommitState's, so commit_router does not return Commit for it
C37_CommitRecordConsistent ==
    \A i \in Inst :
       LET cm == pstate[i].commit
       IN  /\ (cpc[i] = "done" /\ cm.status # "unset") =>
                 /\ cm.status \in CommitStatuses
                 /\ commit_router(cm.status) # "Commit"
           /\ CreatedOrder(cm) =>
                 /\ \/ cm.events = <<"po_created", "po_sent", "reserve_ok", "ship_task">>
                    \/ cm.events = <<"po_created", "po_sent", "reserve_failed", "ship_task">>
                 /\ cm.status = "reserved" <=> Has(cm.events, "reserve_ok")
                 /\ cm.status = "awaiting_supplier_ack" <=>
                        /\ Has(cm.events, "reserve_failed")
                        /\ Has(cm.risk_flags, "no_capacity_reservation")

\* Two instances have created orders, one with and one without the
\* capacity reserved
C37_Witness ==
    \E i, j \in Inst :
       /\ i # j
       /\ CreatedOrder(pstate[i].commit) /\ pstate[i].commit.status = "reserved"
       /\ CreatedOrder(pstate[j].commit)
       /\ pstate[j].commit.status = "awaiting_supplier_ack"

----------------------------------------------------------------------------
(* The Ops task: claim C38 *)

\* C38: an Ops task that has been resolved is not put back to open, with
\* its resolution cleared, by a later ops_node execution
C38_OpsTaskMonotonic ==
    [][fs.ops.status = "resolved" =>
          ~(fs'.ops.status = "open" /\ fs'.ops.resolution = "")]_vars

----------------------------------------------------------------------------
(* The order id of an instance: claim C39 *)

\* C39: once commit_node has stored a commit record for an instance, a
\* later commit_node run of that instance stores the same order_id, and
\* state.order_id is the commit record's order_id
C39_StableOrderId ==
    [][\A i \in Inst :
          (/\ cpc[i] = "done"
           /\ pstate[i].commit.status # "unset"
           /\ pstate'[i].commit.status # "unset") =>
              /\ pstate'[i].commit.order_id = pstate[i].commit.order_id
              /\ pstate'[i].order_id = pstate'[i].commit.order_id]_vars

-----------------------------------------------------------------------------
(* The intake hint and the route: claim C40 *)

\* add_conditional_edges("Intake", ...): the step each next_actions_hint of
\* run_intake_pipeline names
HintStep(hint) ==
    CASE hint = "guard_agent"     -> "Guard"
      [] hint = "drop"            -> "END"
      [] hint = "ops_agent"       -> "Ops"
      [] hint = "clarify_agent"   -> "Clarify"
      [] hint = "translate_agent" -> "Translate"
      [] OTHER                    -> "Cluster"

\* C40: after the Intake step, the step intake_router selected is the one
\* named by the next_actions_hint run_intake_pipeline computed for the
\* output of that step
C40_HintAndRouteAgree ==
    (LastStep = "Intake" /\ fpc # "crashed") =>
        fpc = HintStep(IntakeOutputOf("req_unknown", fs.body, FALSE).next_actions_hint)

====
